---- MODULE Spec2Model ----
(***************************************************************************)
(* Conversational task-management intent engine                            *)
(* (backend/app/services/chat_service.py, backend/mcp_server/task_tools.py *)
(* and backend/routes/tasks.py).                                           *)
(*                                                                         *)
(* Text is modelled as a sequence of words separated by single blanks.     *)
(* Every regular expression of the source is translated to the condition   *)
(* it imposes on such a word sequence.  The vocabulary holds Latin-script  *)
(* words only, so the Urdu-script alternatives of the pattern lists, which *)
(* need characters of U+0600..U+06FF, match no message of the model and    *)
(* are left out.  A date is the number of days it lies after the day of   *)
(* the call; the clock is the weekday of that day (Monday = 0).            *)
(***************************************************************************)
EXTENDS Integers, Sequences, FiniteSets, TLC

\* ------------------------------------------------------------------ bounds
MaxTurns == 2
MaxTasks == 3
MaxRestCreates == 2
MaxMsgLen == 3
MaxTextLen == 10
MaxRequests == 3

\* ------------------------------------------------------- program constants
max_conversation_history == 10
SearchLimit == 5
ListLimit == 100
SummaryLimit == 10

\* ------------------------------------------- state of the pure functions
\* the weekday of datetime.now(), the result of the date parser, the text
\* given to the language detector (one entry per character) and its result,
\* and the local variables of the send_message calls that run side by side
VARIABLES today, parsed_date, input_text, detected_language, requests

functionVars == <<today, parsed_date, input_text, detected_language, requests>>

\* ------------------------------------------------------------ basic values
None == [isNone |-> TRUE, v |-> 0]

Some(x) == [isNone |-> FALSE, v |-> x]

\* Python truthiness of an Optional[int]
Truthy(o) == (~o.isNone) /\ o.v # 0

Digits == <<"0", "1", "2", "3", "4", "5", "6", "7", "8", "9">>

NumTokens == {Digits[i] : i \in 1..Len(Digits)}

\* str(n) for a one-digit n
IntToStr(n) == Digits[n + 1]

\* int(s): the value of a digit string; None where int() raises ValueError
StrToInt(s) ==
  IF s \in NumTokens
    THEN Some(CHOOSE n \in 0..9 : Digits[n + 1] = s)
    ELSE None

\* words of the form \d{4}-\d{2}-\d{2}
IsoTokens == {"2026-01-20", "2026-13-45"}

\* words in Urdu script, written as their code points
ScriptWords ==
  {"u067E_u06CC_u0631", "u0645_u0646_u06AF_u0644", "u0628_u062F_u06BE",
   "u062C_u0645_u0639_u0631_u0627_u062A", "u062C_u0645_u0639_u06C1",
   "u06C1_u0641_u062A_u06C1", "u0627_u062A_u0648_u0627_u0631", "u0622_u062C",
   "u06A9_u0644", "u0627_u06AF_u0644_u06D2", "u06C1_u0641_u062A_u06D2"}

\* str.lower() on the words of the vocabulary
Lower(w) ==
  CASE w = "Lunch" -> "lunch"
    [] w = "Delete" -> "delete"
    [] w = "Task" -> "task"
    [] w = "Add" -> "add"
    [] OTHER -> w

LowerSeq(s) == [i \in 1..Len(s) |-> Lower(s[i])]

\* the word starts with a letter ([a-zA-Z])
StartsWithLetter(w) == w \notin NumTokens \cup IsoTokens \cup ScriptWords /\ w # ""

\* the word consists of [a-zA-Z0-9] only
IsAlnum(w) ==
  w \notin {"title:", "priority:", "category:", "date:", ""} \cup IsoTokens \cup ScriptWords

\* min(len(w), 3): enough to decide the "more than 2 characters" tests
CharLen3(w) ==
  IF w \in NumTokens \cup {"a"} THEN 1
  ELSE IF w \in {"to", "my", "in", "on", "at", "by", "id", "ho"} THEN 2
  ELSE 3

RECURSIVE TextLen3(_)
\* length of the joined text, exact up to 3 and at least 3 beyond
TextLen3(s) ==
  IF Len(s) = 0 THEN 0
  ELSE IF Len(s) = 1 THEN CharLen3(s[1])
  ELSE CharLen3(s[1]) + 1 + TextLen3(Tail(s))

\* r'\bA\b.*\bB\b': a word of A, and later a word of B
HasOrdered(m, A, B) ==
  \E i, j \in 1..Len(m) : i < j /\ m[i] \in A /\ m[j] \in B

\* words a pattern ending in '\btask' (no closing \b) accepts
TaskPrefixed == {"task", "tasks"}

ListPrefixed == {"list"}

\* r'\bV\b\s+(?:the\s+)?[a-zA-Z]': V directly followed by a word
FollowedByWord(m, V) ==
  \E i \in 1..Len(m) : m[i] \in V /\ i + 1 <= Len(m) /\ StartsWithLetter(m[i + 1])

\* ------------------------------------------------------- intent classifier
MatchesDelete(m) ==
  \/ HasOrdered(m, {"delete"}, {"task"})
  \/ HasOrdered(m, {"remove"}, {"task"})
  \/ HasOrdered(m, {"task"}, {"delete"})
  \/ HasOrdered(m, {"task"}, {"remove"})
  \/ FollowedByWord(m, {"delete"})
  \/ FollowedByWord(m, {"remove"})
  \/ HasOrdered(m, {"kaam"}, {"delete"})
  \/ HasOrdered(m, {"kaam"}, {"hatao"})
  \/ HasOrdered(m, {"hatao"}, {"task"})

MatchesComplete(m) ==
  \/ HasOrdered(m, {"complete"}, {"task"})
  \/ HasOrdered(m, {"mark"}, {"done", "completed"})
  \/ \E i, j, k \in 1..Len(m) :
        /\ i < j /\ j < k
        /\ m[i] = "mark" /\ m[j] = "task"
        /\ m[k] \in {"done", "completed", "complete"}
  \/ HasOrdered(m, {"finish"}, {"task"})
  \/ HasOrdered(m, {"task"}, {"complete"})
  \/ HasOrdered(m, {"task"}, {"done"})
  \/ HasOrdered(m, {"kaam"}, {"hogaya"})
  \/ \E i, j \in 1..Len(m) :
        i < j /\ j + 1 <= Len(m) /\ m[i] = "kaam" /\ m[j] = "ho" /\ m[j + 1] = "gaya"
  \/ HasOrdered(m, {"kaam"}, {"complete"})

MatchesAdd(m) ==
  \/ HasOrdered(m, {"add"}, {"task"})
  \/ HasOrdered(m, {"create"}, {"task"})
  \/ HasOrdered(m, {"new"}, {"task"})
  \/ HasOrdered(m, {"task"}, {"add"})
  \/ HasOrdered(m, {"kaam"}, {"add"})
  \/ HasOrdered(m, {"task"}, {"banao"})
  \/ HasOrdered(m, {"nayi"}, {"task"})
  \/ HasOrdered(m, {"naya"}, {"kaam"})

MatchesList(m) ==
  \/ HasOrdered(m, {"list"}, TaskPrefixed)
  \/ HasOrdered(m, {"show"}, TaskPrefixed)
  \/ HasOrdered(m, {"my"}, TaskPrefixed)
  \/ HasOrdered(m, {"view"}, TaskPrefixed)
  \/ HasOrdered(m, {"see"}, TaskPrefixed)
  \/ \E i, j \in 1..Len(m) :
        i + 1 < j /\ m[i] = "how" /\ m[i + 1] = "many" /\ m[j] \in TaskPrefixed
  \/ HasOrdered(m, TaskPrefixed, ListPrefixed)
  \/ HasOrdered(m, {"task"}, {"dikhao"})
  \/ HasOrdered(m, {"meray"}, {"kaam"})
  \/ HasOrdered(m, {"mere"}, TaskPrefixed)
  \/ HasOrdered(m, {"kitne"}, TaskPrefixed)
  \/ HasOrdered(m, {"kitnay"}, TaskPrefixed)
  \/ HasOrdered(m, {"task"}, {"hein"})
  \/ HasOrdered(m, {"task"}, {"hai", "hain"})
  \/ HasOrdered(m, {"kaam"}, {"dikhao"})
  \/ HasOrdered(m, {"kaam"}, {"hein"})

\* does the pattern family tagged with this intent match the message
FamilyMatches(tag, m) ==
  CASE tag = "deleting_task" -> MatchesDelete(m)
    [] tag = "completing_task" -> MatchesComplete(m)
    [] tag = "adding_task" -> MatchesAdd(m)
    [] tag = "listing_tasks" -> MatchesList(m)

\* the order in which _detect_intent runs its four pattern loops
IntentOrderSwapped == <<"listing_tasks", "adding_task", "completing_task", "deleting_task">>

IntentOrder == <<"deleting_task", "completing_task", "adding_task", "listing_tasks">>

RECURSIVE FirstMatch(_, _)
FirstMatch(order, m) ==
  IF Len(order) = 0 THEN "none"
  ELSE IF FamilyMatches(Head(order), m) THEN Head(order)
  ELSE FirstMatch(Tail(order), m)

\* _detect_intent: lower-cases the message, returns on the first family hit
DetectIntent(message) == FirstMatch(IntentOrder, LowerSeq(message))

\* ------------------------------------------------------ conversation state
NoTitle == <<>>

EmptyMapping == <<>>

\* Python None where a state dict is expected
NoState ==
  [isNone |-> TRUE, intent |-> "absent", title |-> NoTitle, priority |-> "absent",
   category |-> "absent", due_date |-> "absent",
   has_mapping |-> FALSE, task_mapping |-> EmptyMapping, task_count |-> 0]

\* the empty dict {}
EmptyDict == [NoState EXCEPT !.isNone = FALSE]

\* a mapping key as Python holds it: an int, or a str after the JSON round trip
IntKey(n) == [kind |-> "int", n |-> n, s |-> ""]

StrKey(s) == [kind |-> "str", n |-> 0, s |-> s]

\* int(key) of _resolve_task_reference; None where it raises
KeyToInt(k) == IF k.kind = "int" THEN Some(k.n) ELSE StrToInt(k.s)

\* json.dumps turns every dict key into a string
JsonKey(k) == IF k.kind = "int" THEN StrKey(IntToStr(k.n)) ELSE k

\* the mapping as it comes back from the JSON column of the message
JsonMapping(tm) ==
  [k \in {JsonKey(x) : x \in DOMAIN tm} |->
     tm[CHOOSE x \in DOMAIN tm : JsonKey(x) = k]]

\* the state blob as the next turn reads it back from Message.meta_data
JsonState(st) == [st EXCEPT !.task_mapping = JsonMapping(st.task_mapping)]

\* `current_state and ...`: None and {} are both falsy
StateTruthy(st) == (~st.isNone) /\ st # EmptyDict

StateIntent(st) == IF StateTruthy(st) THEN st.intent ELSE "absent"

\* ------------------------------------------------- task reference resolver
ResolveVerbs == {"complete", "delete", "mark", "finish"}

\* words accepted by the unanchored tail '(?:task|as)' of the first title pattern
TaskOrAsPrefixed == {"task", "tasks", "as"}

\* r'\b(?:task|id)\s*#?(\d+)\b', first match
NumberPositions(m) ==
  {i \in 1..Len(m) :
     Lower(m[i]) \in {"task", "id"} /\ i + 1 <= Len(m) /\ m[i + 1] \in NumTokens}

SetMin(S) == CHOOSE x \in S : \A y \in S : x <= y

ExtractNumber(m) ==
  IF NumberPositions(m) = {} THEN None
  ELSE StrToInt(m[SetMin(NumberPositions(m)) + 1])

\* the words a..b can be the group ([a-zA-Z][a-zA-Z0-9\s]+...) of a title pattern
GroupOk(m, a, b) ==
  /\ a >= 1 /\ a <= b /\ b <= Len(m)
  /\ StartsWithLetter(m[a])
  /\ \A k \in a..b : IsAlnum(m[k])
  /\ TextLen3(SubSeq(m, a, b)) >= 2

\* ends of the lazy group of pattern 1 when the group starts at word a
P1Ends(m, a) ==
  {b \in 1..Len(m) :
     GroupOk(m, a, b) /\ b + 1 <= Len(m) /\ Lower(m[b + 1]) \in TaskOrAsPrefixed}

\* pattern 1 anchored at the verb in position i: optional 'the' first
P1At(m, i) ==
  IF i + 1 <= Len(m) /\ Lower(m[i + 1]) = "the" /\ P1Ends(m, i + 2) # {}
    THEN SubSeq(m, i + 2, SetMin(P1Ends(m, i + 2)))
  ELSE IF P1Ends(m, i + 1) # {}
    THEN SubSeq(m, i + 1, SetMin(P1Ends(m, i + 1)))
  ELSE NoTitle

P1Positions(m) ==
  {i \in 1..Len(m) : Lower(m[i]) \in ResolveVerbs /\ P1At(m, i) # NoTitle}

\* pattern 2: the verb, then everything up to the end of the message
P2Positions(m) ==
  {i \in 1..Len(m) : Lower(m[i]) \in ResolveVerbs /\ GroupOk(m, i + 1, Len(m))}

\* the title patterns, tried in order, first hit wins
ExtractTitleFragment(m) ==
  IF P1Positions(m) # {} THEN P1At(m, SetMin(P1Positions(m)))
  ELSE IF P2Positions(m) # {} THEN SubSeq(m, SetMin(P2Positions(m)) + 1, Len(m))
  ELSE NoTitle

\* the mapping with the stored keys taken as they are, integers only
CoerceMappingIntKeysOnly(raw) ==
  LET good == {k \in DOMAIN raw : k.kind = "int"}
  IN [n \in {k.n : k \in good} |-> raw[CHOOSE k \in good : k.n = n]]

\* the int-keyed mapping rebuilt from the stored one; unconvertible keys skipped
CoerceMapping(raw) ==
  LET good == {k \in DOMAIN raw : ~KeyToInt(k).isNone}
  IN [n \in {KeyToInt(k).v : k \in good} |->
        raw[CHOOSE k \in good : KeyToInt(k).v = n]]

\* dict.get(n)
MappingGet(tm, n) == IF n \in DOMAIN tm THEN Some(tm[n]) ELSE None

\* x is a contiguous part of y
Contains(y, x) ==
  \E i \in 0..(Len(y) - Len(x)) : SubSeq(y, i + 1, i + Len(x)) = x

\* Task.title.ilike('%q%')
TitleILike(title, q) == Contains(LowerSeq(title), LowerSeq(q))

MatchingTasks(store, user_id, q) ==
  {t \in store : t.user_id = user_id /\ TitleILike(t.title, q)}

Min2(a, b) == IF a <= b THEN a ELSE b

\* results the query can return: the matches in some order, cut at the limit
QueryRows(S) ==
  {r \in [1..Min2(Cardinality(S), SearchLimit) -> S] :
     \A i, j \in DOMAIN r : i # j => r[i] # r[j]}

\* the rows the title query of _search_task_by_title can return; no query
\* is made without a title fragment
SearchRows(store, user_id, q) ==
  IF q = NoTitle THEN {<<>>} ELSE QueryRows(MatchingTasks(store, user_id, q))

\* _search_task_by_title on the rows the query returned
PickFromRows(rows, q) ==
  IF Len(rows) = 0 THEN None
  ELSE IF Len(rows) = 1 THEN Some(rows[1].id)
  ELSE IF \E i \in 1..Len(rows) : LowerSeq(rows[i].title) = LowerSeq(q)
    THEN Some(rows[SetMin({i \in 1..Len(rows) :
                             LowerSeq(rows[i].title) = LowerSeq(q)})].id)
  ELSE Some(rows[1].id)

\* the title fragment _resolve_task_reference searches for (NoTitle: no search)
ResolveTitle(m) ==
  IF ~Truthy(ExtractNumber(m)) THEN ExtractTitleFragment(m) ELSE NoTitle

\* the int-keyed task_mapping of the prior state ({} when there is none)
StateMapping(current_state) ==
  IF StateTruthy(current_state) /\ DOMAIN current_state.task_mapping # {}
    THEN CoerceMapping(current_state.task_mapping)
    ELSE EmptyMapping

\* current_state.get("task_count", 0)
StateTaskCount(current_state) ==
  IF StateTruthy(current_state) THEN current_state.task_count ELSE 0

\* priority 1: the position of the last listing
ByPosition(number, task_mapping, task_count) ==
  IF Truthy(number) /\ DOMAIN task_mapping # {} /\ 1 <= number.v /\ number.v <= task_count
    THEN MappingGet(task_mapping, number.v)
    ELSE None

\* priority 2: the title search
ByTitle(title, rows) == IF title # NoTitle THEN PickFromRows(rows, title) ELSE None

Resolved(number, title, task_id, by, rows) ==
  [number |-> number, title |-> title, task_id |-> task_id, by |-> by, rows |-> rows]

\* the priorities of _resolve_task_reference on the extracted number and title
ResolveFrom(number, title, task_mapping, task_count, rows) ==
  IF Truthy(ByPosition(number, task_mapping, task_count))
    THEN Resolved(number, title, ByPosition(number, task_mapping, task_count),
                  "position", rows)
  ELSE IF Truthy(ByTitle(title, rows))
    THEN Resolved(number, title, ByTitle(title, rows), "title", rows)
  ELSE IF Truthy(number) /\ (DOMAIN task_mapping = {} \/ number.v > task_count)
    THEN Resolved(number, title, Some(number.v), "id", rows)
  ELSE Resolved(number, title, None, "none", rows)

\* _resolve_task_reference without the positional step
ResolveTaskReferenceDirect(m, current_state, rows) ==
  ResolveFrom(ExtractNumber(m), ResolveTitle(m), EmptyMapping, 0, rows)

\* _resolve_task_reference: position, then title, then direct ID
ResolveTaskReference(m, current_state, rows) ==
  ResolveFrom(ExtractNumber(m), ResolveTitle(m), StateMapping(current_state),
              StateTaskCount(current_state), rows)

\* ----------------------------------------------------------- slot extractor
AddVerbs == {"add", "create", "new"}

\* words the unanchored stop list of the title patterns accepts as a prefix
StopPrefixed ==
  {"tomorrow", "today", "yesterday", "with", "in", "for", "by", "on", "at",
   "high", "medium", "low", "personal", "work", "shopping"}

\* words the clean-up substitution cuts the title at
CleanupPrefixed == {"please", "plz", "tomorrow", "today", "with", "in"}

PriorityWords == {"high", "medium", "low"}

\* the lazy group (.+?) starting at word a: it ends before the first stop word
StopEnds(m, a) ==
  {b \in a..Len(m) : b = Len(m) \/ Lower(m[b + 1]) \in StopPrefixed}

\* re.sub(r'\s+(please|plz|...).*$', '', title)
CleanTitle(g) ==
  LET cuts == {j \in 2..Len(g) : Lower(g[j]) \in CleanupPrefixed}
  IN IF cuts = {} THEN g ELSE SubSeq(g, 1, SetMin(cuts) - 1)

\* the group of a title pattern whose fixed part ends at word h; the optional
\* word (to|for, karo) is consumed when something is left for the group
GroupAfter(m, h, optional) ==
  LET a == IF h + 2 <= Len(m) /\ Lower(m[h + 1]) \in optional THEN h + 2 ELSE h + 1
  IN SubSeq(m, a, SetMin(StopEnds(m, a)))

\* r'(?:add|create|new)\s+(?:task|kaam)\s+(?:to|for)?\s*(.+?)(?:\s+(?:stop)|\s*$)'
E1Positions(m) ==
  {i \in 1..Len(m) :
     /\ i + 2 <= Len(m)
     /\ Lower(m[i]) \in AddVerbs
     /\ Lower(m[i + 1]) \in {"task", "kaam"}}

\* r'task\s+(?:add|banao)\s+(?:karo?)?\s*[:-]?\s*(.+?)(?:\s+(?:stop)|\s*$)'
E2Positions(m) ==
  {i \in 1..Len(m) :
     /\ i + 2 <= Len(m)
     /\ Lower(m[i]) = "task"
     /\ Lower(m[i + 1]) \in {"add", "banao"}}

\* the first non-empty of the titles the two English patterns capture
FirstTitle(first, second) == IF first # NoTitle THEN first ELSE second

\* the English title patterns in order; a hit with an empty title moves on
EnglishTitle(m) ==
  FirstTitle(
    IF E1Positions(m) # {}
      THEN CleanTitle(GroupAfter(m, SetMin(E1Positions(m)) + 1, {"to", "for"}))
      ELSE NoTitle,
    IF E2Positions(m) # {}
      THEN CleanTitle(GroupAfter(m, SetMin(E2Positions(m)) + 1, {"karo", "kar"}))
      ELSE NoTitle)

\* r'(?:task\s+)?title\s*[:\-]\s*(.+?)(?:\n|$|,...)': the words after 'title:'
StructuredTitlePositions(m) ==
  {i \in 1..Len(m) : Lower(m[i]) = "title:" /\ i + 1 <= Len(m)}

StructuredTitle(m) ==
  IF StructuredTitlePositions(m) = {} THEN NoTitle
  ELSE SubSeq(m, SetMin(StructuredTitlePositions(m)) + 1, Len(m))

\* the whole message minus everything from a 'priority:'-like label on
CleanedMessage(m) ==
  LET cuts == {j \in 1..Len(m) :
                 \/ Lower(m[j]) \in {"priority:", "category:"}
                 \/ (Lower(m[j]) = "due" /\ j + 1 <= Len(m) /\ Lower(m[j + 1]) = "date:")}
  IN IF cuts = {} THEN m ELSE SubSeq(m, 1, SetMin(cuts) - 1)

\* the fallback of the title chain: the cleaned message in the add dialogue
FallbackTitle(m, current_state) ==
  IF StateIntent(current_state) = "adding_task" /\ TextLen3(CleanedMessage(m)) > 2
    THEN CleanedMessage(m)
    ELSE NoTitle

\* the title chain of _extract_task_info, run only when no title is set
ExtractTitle(m, current_state) ==
  FirstTitle(StructuredTitle(m),
             FirstTitle(EnglishTitle(m), FallbackTitle(m, current_state)))

\* priority: the structured field first, then the first priority word
ExtractPriority(m) ==
  LET structured ==
        {i \in 1..Len(m) :
           Lower(m[i]) = "priority:" /\ i + 1 <= Len(m) /\ Lower(m[i + 1]) \in PriorityWords}
      free == {i \in 1..Len(m) : Lower(m[i]) \in PriorityWords}
  IN IF structured # {} THEN Lower(m[SetMin(structured) + 1])
     ELSE IF free # {} THEN Lower(m[SetMin(free)])
     ELSE "absent"

\* the leading \w+ of a word
WordPrefix(w) ==
  CASE w = "title:" -> "title"
    [] w = "priority:" -> "priority"
    [] w = "category:" -> "category"
    [] w = "date:" -> "date"
    [] w \in IsoTokens -> "2026"
    [] OTHER -> w

CategoryWords == {"personal", "work", "shopping"}

\* category: the structured field first, then the first category word
ExtractCategory(m) ==
  LET structured == {i \in 1..Len(m) : Lower(m[i]) = "category:" /\ i + 1 <= Len(m)}
      free == {i \in 1..Len(m) : Lower(m[i]) \in CategoryWords}
  IN IF structured # {} THEN Lower(WordPrefix(m[SetMin(structured) + 1]))
     ELSE IF free # {} THEN Lower(m[SetMin(free)])
     ELSE "absent"

\* ---------------------------------------------------------------- date parser
\* the weekdays dict of _parse_natural_date in its insertion order
weekdays ==
  <<[name |-> "monday", num |-> 0], [name |-> "tuesday", num |-> 1],
    [name |-> "wednesday", num |-> 2], [name |-> "thursday", num |-> 3],
    [name |-> "friday", num |-> 4], [name |-> "saturday", num |-> 5],
    [name |-> "sunday", num |-> 6], [name |-> "peer", num |-> 0],
    [name |-> "mangal", num |-> 1], [name |-> "budh", num |-> 2],
    [name |-> "jumerat", num |-> 3], [name |-> "juma", num |-> 4],
    [name |-> "hafta", num |-> 5], [name |-> "itwaar", num |-> 6]>>

\* datetime.weekday() of the days of a week
WeekdayNumbers == {weekdays[k].num : k \in DOMAIN weekdays}

\* the weekday of the day the modelled conversation takes place (a Saturday)
ReferenceDay == weekdays[CHOOSE k \in DOMAIN weekdays : weekdays[k].name = "saturday"].num

\* `day_name in text_lower` on a word: the name is a part of the word
WordContains(w, name) == w = name \/ <<w, name>> \in {<<"mondays", "monday">>}

\* None of _parse_natural_date
NoDate == [isNone |-> TRUE, rule |-> "none", days |-> 0, literal |-> ""]

\* today + timedelta(days)
DateIn(rule, days) == [isNone |-> FALSE, rule |-> rule, days |-> days, literal |-> ""]

\* the literal date of the text
DateLiteral(w) == [isNone |-> FALSE, rule |-> "iso", days |-> 0, literal |-> w]

\* places of the weekdays dict whose name occurs in the text
WeekdayHits(t) ==
  {k \in DOMAIN weekdays : \E i \in 1..Len(t) : WordContains(t[i], weekdays[k].name)}

\* days_ahead that lets the day of the call stand for its own weekday
DaysAheadSameDay(day_num, wd) ==
  IF day_num - wd < 0 THEN day_num - wd + 7 ELSE day_num - wd

\* days_ahead of the weekday loop
DaysAhead(day_num, wd) ==
  IF day_num - wd <= 0 THEN day_num - wd + 7 ELSE day_num - wd

\* the urdu_weekdays dict in its insertion order; a word in Urdu script is
\* written as its code points
urdu_weekdays ==
  <<[name |-> "u067E_u06CC_u0631", num |-> 0],
    [name |-> "u0645_u0646_u06AF_u0644", num |-> 1],
    [name |-> "u0628_u062F_u06BE", num |-> 2],
    [name |-> "u062C_u0645_u0639_u0631_u0627_u062A", num |-> 3],
    [name |-> "u062C_u0645_u0639_u06C1", num |-> 4],
    [name |-> "u06C1_u0641_u062A_u06C1", num |-> 5],
    [name |-> "u0627_u062A_u0648_u0627_u0631", num |-> 6]>>

\* places of the urdu_weekdays dict whose name occurs in the text
UrduWeekdayHits(t) ==
  {k \in DOMAIN urdu_weekdays : \E i \in 1..Len(t) : t[i] = urdu_weekdays[k].name}

\* the words of the 'today' and of the 'tomorrow' pattern
TodayWords == {"today", "u0622_u062C", "aaj"}

TomorrowWords == {"tomorrow", "u06A9_u0644", "kal"}

\* r'\bnext\s+week\b|...|\bagle\s+hafte\b'
HasNextWeek(t) ==
  \E i \in 1..(Len(t) - 1) :
    <<t[i], t[i + 1]>> \in {<<"next", "week">>,
                            <<"u0627_u06AF_u0644_u06D2", "u06C1_u0641_u062A_u06D2">>,
                            <<"agle", "hafte">>}

\* the weekday loops, the literal date and the final return None
ParseTail(t, wd) ==
  IF WeekdayHits(t) # {}
    THEN DateIn("weekday", DaysAhead(weekdays[SetMin(WeekdayHits(t))].num, wd))
  ELSE IF UrduWeekdayHits(t) # {}
    THEN DateIn("urdu_weekday",
                DaysAhead(urdu_weekdays[SetMin(UrduWeekdayHits(t))].num, wd))
  ELSE IF \E i \in 1..Len(t) : t[i] \in IsoTokens
    THEN DateLiteral(t[SetMin({i \in 1..Len(t) : t[i] \in IsoTokens})])
  ELSE NoDate

\* the rules with the weekday loops tried before 'today' and 'tomorrow'
ParseLoweredWeekdayFirst(t, wd) ==
  IF WeekdayHits(t) # {} \/ UrduWeekdayHits(t) # {} THEN ParseTail(t, wd)
  ELSE IF \E i \in 1..Len(t) : t[i] \in TodayWords THEN DateIn("today", 0)
  ELSE IF \E i \in 1..Len(t) : t[i] \in TomorrowWords THEN DateIn("tomorrow", 1)
  ELSE IF HasNextWeek(t) THEN DateIn("next_week", 7)
  ELSE ParseTail(t, wd)

\* the rules of _parse_natural_date on the lower-cased text t; wd is
\* today.weekday().  The script words and the literal date have no capitals,
\* so the rules that read `text` are given t as well.
ParseLowered(t, wd) ==
  IF \E i \in 1..Len(t) : t[i] \in TodayWords THEN DateIn("today", 0)
  ELSE IF \E i \in 1..Len(t) : t[i] \in TomorrowWords THEN DateIn("tomorrow", 1)
  ELSE IF HasNextWeek(t) THEN DateIn("next_week", 7)
  ELSE ParseTail(t, wd)

\* _parse_natural_date
ParseNaturalDate(text, wd) == ParseLowered(LowerSeq(text), wd)

\* date.isoformat() of today + timedelta(days), days = 0..7
Isoformat == <<"now", "now+1d", "now+2d", "now+3d", "now+4d", "now+5d", "now+6d", "now+7d">>

\* the string _parse_natural_date returns
DateString(d) ==
  IF d.isNone THEN "absent"
  ELSE IF d.rule = "iso" THEN d.literal \o "T00:00:00Z"
  ELSE Isoformat[d.days + 1]

\* r'due\s+date\s*[:\-]\s*(.+?)(?:\n|$|...)': the words after 'due date:'
StructuredDuePositions(m) ==
  {i \in 1..Len(m) :
     Lower(m[i]) = "due" /\ i + 2 <= Len(m) /\ Lower(m[i + 1]) = "date:"}

\* due date: the structured field when there is one, else the whole message
ExtractDueDate(m, wd) ==
  IF StructuredDuePositions(m) # {}
    THEN ParseNaturalDate(SubSeq(m, SetMin(StructuredDuePositions(m)) + 2, Len(m)), wd)
    ELSE ParseNaturalDate(m, wd)

\* the slots of the prior state with the extracted ones merged in
MergeInfo(info, title, priority, category, due_date) ==
  [info EXCEPT !.title = IF @ = NoTitle THEN title ELSE @,
               !.priority = IF priority # "absent" THEN priority ELSE @,
               !.category = IF category # "absent" THEN category ELSE @,
               !.due_date = IF due_date # "absent" THEN due_date ELSE @,
               !.intent = "adding_task"]

\* _extract_task_info, followed by task_info["intent"] = "adding_task"
ExtractTaskInfo(m, current_state) ==
  MergeInfo(IF StateTruthy(current_state) THEN current_state ELSE EmptyDict,
            ExtractTitle(m, current_state), ExtractPriority(m), ExtractCategory(m),
            DateString(ExtractDueDate(m, today)))

\* _is_task_info_complete
IsTaskInfoComplete(task_info) == task_info.title # NoTitle

\* task_info.get("priority", "medium")
PriorityArg(task_info) ==
  IF task_info.priority = "absent" THEN "medium" ELSE task_info.priority

\* --------------------------------------------------------------- task tools
NoTaskView == [id |-> "", user_id |-> "", title |-> NoTitle, completed |-> FALSE,
               priority |-> ""]

\* the dict a tool returns for a task; the id is str(task.id)
TaskView(t) == [id |-> IntToStr(t.id), user_id |-> t.user_id, title |-> t.title,
                completed |-> t.completed, priority |-> t.priority]

Failure(error, code) ==
  [success |-> FALSE, error |-> error, code |-> code,
   task |-> NoTaskView, tasks |-> <<>>, count |-> 0]

Success(task, tasks) ==
  [success |-> TRUE, error |-> "", code |-> "",
   task |-> task, tasks |-> tasks, count |-> Len(tasks)]

\* what a database access inside a tool can do
CrudOutcomes == {"ok", "db_error"}

\* the year, month and day a word of the form \d{4}-\d{2}-\d{2} is read as
IsoFields(w) ==
  CASE w = "2026-01-20" -> [year |-> 2026, month |-> 1, day |-> 20]
    [] w = "2026-13-45" -> [year |-> 2026, month |-> 13, day |-> 45]

\* the days of a month of the calendar
DaysInMonth(year, month) ==
  IF month \in {4, 6, 9, 11} THEN 30
  ELSE IF month # 2 THEN 31
  ELSE IF year % 4 = 0 /\ (year % 100 # 0 \/ year % 400 = 0) THEN 29
  ELSE 28

\* datetime.fromisoformat(due_date.replace('Z', '+00:00')) returns a value:
\* the string is an isoformat() of a datetime, or a date of the calendar
\* followed by the midnight time
ParsesAsIso(due_date) ==
  \/ \E k \in DOMAIN Isoformat : due_date = Isoformat[k]
  \/ \E w \in IsoTokens :
       /\ due_date = w \o "T00:00:00Z"
       /\ IsoFields(w).month \in 1..12
       /\ IsoFields(w).day \in 1..DaysInMonth(IsoFields(w).year, IsoFields(w).month)

InvalidDueDate ==
  "Invalid due_date format. Use ISO 8601 format (e.g., 2026-01-20T00:00:00Z)"

\* add_task: validation, then the insert
AddTask(store, nid, user_id, title, due_date, priority, outcome) ==
  IF user_id = ""
    THEN [result |-> Failure("User ID is required", "VALIDATION_ERROR"),
          store |-> store, next_id |-> nid]
  ELSE IF title = NoTitle
    THEN [result |-> Failure("Title cannot be empty", "VALIDATION_ERROR"),
          store |-> store, next_id |-> nid]
  ELSE IF priority \notin PriorityWords
    THEN [result |-> Failure("Priority must be 'high', 'medium', or 'low'",
                             "VALIDATION_ERROR"),
          store |-> store, next_id |-> nid]
  ELSE IF due_date # "absent" /\ ~ParsesAsIso(due_date)
    THEN [result |-> Failure(InvalidDueDate, "VALIDATION_ERROR"),
          store |-> store, next_id |-> nid]
  ELSE IF outcome = "db_error"
    THEN [result |-> Failure("Database error", "DATABASE_ERROR"),
          store |-> store, next_id |-> nid]
  ELSE LET t == [id |-> nid, user_id |-> user_id, title |-> title,
                 completed |-> FALSE, priority |-> priority]
       IN [result |-> Success(TaskView(t), <<>>),
           store |-> store \cup {t}, next_id |-> nid + 1]

RECURSIVE NewestFirst(_)
\* order_by(Task.created_at.desc()): ids grow with the creation time
NewestFirst(S) ==
  IF S = {} THEN <<>>
  ELSE LET t == CHOOSE x \in S : \A y \in S : y.id <= x.id
       IN <<t>> \o NewestFirst(S \ {t})

FirstN(q, n) == SubSeq(q, 1, Min2(Len(q), n))

\* list_tasks with status "all"
ListTasks(store, user_id, limit, outcome) ==
  IF user_id = ""
    THEN Failure("User ID is required", "VALIDATION_ERROR")
  ELSE IF limit < 1 \/ limit > 100
    THEN Failure("Limit must be between 1 and 100", "VALIDATION_ERROR")
  ELSE IF outcome = "db_error"
    THEN Failure("Database error", "DATABASE_ERROR")
  ELSE LET rows == FirstN(NewestFirst({t \in store : t.user_id = user_id}), limit)
       IN Success(NoTaskView, [i \in 1..Len(rows) |-> TaskView(rows[i])])

\* the checks without the comparison of the task's owner with the caller
TaskAccessErrorAnyOwner(store, user_id, task_id, outcome) ==
  IF user_id = "" THEN Failure("User ID is required", "VALIDATION_ERROR")
  ELSE IF task_id = "" THEN Failure("Task ID is required", "VALIDATION_ERROR")
  ELSE IF StrToInt(task_id).isNone
    THEN Failure("Invalid task ID format", "VALIDATION_ERROR")
  ELSE IF outcome = "db_error" THEN Failure("Database error", "DATABASE_ERROR")
  ELSE IF ~\E t \in store : t.id = StrToInt(task_id).v
    THEN Failure("Task not found", "NOT_FOUND")
  ELSE Success(NoTaskView, <<>>)

\* the checks complete_task and delete_task share before they touch the task
TaskAccessError(store, user_id, task_id, outcome) ==
  IF user_id = "" THEN Failure("User ID is required", "VALIDATION_ERROR")
  ELSE IF task_id = "" THEN Failure("Task ID is required", "VALIDATION_ERROR")
  ELSE IF StrToInt(task_id).isNone
    THEN Failure("Invalid task ID format", "VALIDATION_ERROR")
  ELSE IF outcome = "db_error" THEN Failure("Database error", "DATABASE_ERROR")
  ELSE IF ~\E t \in store : t.id = StrToInt(task_id).v
    THEN Failure("Task not found", "NOT_FOUND")
  ELSE IF (CHOOSE t \in store : t.id = StrToInt(task_id).v).user_id # user_id
    THEN Failure("Unauthorized: Task does not belong to this user", "UNAUTHORIZED")
  ELSE Success(NoTaskView, <<>>)

\* complete_task
CompleteTask(store, user_id, task_id, outcome) ==
  LET check == TaskAccessError(store, user_id, task_id, outcome)
  IN IF ~check.success THEN [result |-> check, store |-> store]
     ELSE LET old == CHOOSE t \in store : t.id = StrToInt(task_id).v
              new == [old EXCEPT !.completed = TRUE]
          IN [result |-> Success(TaskView(new), <<>>),
              store |-> (store \ {old}) \cup {new}]

\* delete_task that reports success and leaves the row in place
DeleteTaskKeepsRow(store, user_id, task_id, outcome) ==
  [result |-> TaskAccessError(store, user_id, task_id, outcome), store |-> store]

\* delete_task
DeleteTask(store, user_id, task_id, outcome) ==
  LET check == TaskAccessError(store, user_id, task_id, outcome)
  IN IF ~check.success THEN [result |-> check, store |-> store]
     ELSE LET old == CHOOSE t \in store : t.id = StrToInt(task_id).v
          IN [result |-> Success(NoTaskView, <<>>), store |-> store \ {old}]

\* ------------------------------------------------------------ tool results
NoResult == Failure("", "")

\* tool_calls entry built from a returned result: it has no "error" key
CallEntry(tool, result) ==
  [tool |-> tool, success |-> result.success, has_error |-> FALSE, error |-> "",
   result |-> result]

\* tool_calls entry built by the orchestrator itself: "error" key, no result
ErrorEntry(tool, error) ==
  [tool |-> tool, success |-> FALSE, has_error |-> TRUE, error |-> error,
   result |-> NoResult]

CouldNotIdentify(tool) ==
  IF tool = "complete_task"
    THEN "Could not identify which task to complete. Please list your tasks first or specify the task by name."
    ELSE "Could not identify which task to delete. Please list your tasks first or specify the task by name."

\* one line of _format_tool_results
FormatCall(call) ==
  IF call.success
    THEN IF call.tool = "list_tasks"
           THEN IF call.result.count = 0
                  THEN [ok |-> TRUE, tool |-> call.tool, text |-> "User has no tasks.",
                        titles |-> <<>>]
                  ELSE [ok |-> TRUE, tool |-> call.tool, text |-> "Found tasks",
                        titles |-> [i \in 1..Min2(Len(call.result.tasks), SummaryLimit) |->
                                      call.result.tasks[i].title]]
         ELSE IF call.tool = "add_task"
           THEN [ok |-> TRUE, tool |-> call.tool, text |-> "Successfully created task",
                 titles |-> <<call.result.task.title>>]
         ELSE IF call.tool = "complete_task"
           THEN [ok |-> TRUE, tool |-> call.tool, text |-> "Successfully completed task",
                 titles |-> <<call.result.task.title>>]
         ELSE IF call.tool = "delete_task"
           THEN [ok |-> TRUE, tool |-> call.tool, text |-> "Task deleted successfully",
                 titles |-> <<>>]
         ELSE [ok |-> TRUE, tool |-> call.tool, text |-> "Success", titles |-> <<>>]
    ELSE [ok |-> FALSE, tool |-> call.tool,
          text |-> IF call.has_error THEN call.error ELSE "Unknown error",
          titles |-> <<>>]

\* _format_tool_results: one line per tool call
FormatToolResults(calls) == [i \in 1..Len(calls) |-> FormatCall(calls[i])]

\* ----------------------------------------------------- dialogue orchestrator
Users == {"alice", "bob"}

\* the user the modelled conversation belongs to
ChatUser == "alice"

NoResolve == [number |-> None, title |-> NoTitle, task_id |-> None, by |-> "not_run",
              rows |-> <<>>]

CrudCall(op, title, priority, task_id, success) ==
  [op |-> op, title |-> title, priority |-> priority, task_id |-> task_id,
   success |-> success]

\* a listing state that numbers the tasks instead of recording their ids
MappingStateByNumber(listed) ==
  [EmptyDict EXCEPT
     !.has_mapping = TRUE,
     !.task_mapping = [k \in {IntKey(p) : p \in 1..Len(listed)} |-> k.n],
     !.task_count = Len(listed)]

\* the state a successful, non-empty list result leaves: position -> int(id)
MappingState(listed) ==
  [EmptyDict EXCEPT
     !.has_mapping = TRUE,
     !.task_mapping = [k \in {IntKey(p) : p \in 1..Len(listed)} |->
                         StrToInt(listed[k.n].id).v],
     !.task_count = Len(listed)]

\* a read of the state that takes the oldest assistant message
LastAssistantStateOldest(msgs) ==
  LET idx == {i \in 1..Len(msgs) : msgs[i].role = "assistant"}
  IN IF idx = {} THEN NoState
     ELSE msgs[CHOOSE i \in idx : \A j \in idx : i <= j].state

\* the current_state of step 2: the blob of the newest assistant message
LastAssistantState(msgs) ==
  LET idx == {i \in 1..Len(msgs) : msgs[i].role = "assistant"}
  IN IF idx = {} THEN NoState
     ELSE msgs[CHOOSE i \in idx : \A j \in idx : j <= i].state

Branch(branch, calls, state, store, nid, res, crud_calls) ==
  [branch |-> branch, tool_calls |-> calls, conversation_state |-> state,
   store |-> store, next_id |-> nid, resolved |-> res, crud |-> crud_calls]

\* the add branch that keeps the slots after the call of add_task
AddBranchDoneKeepsSlots(task_info, r) ==
  Branch("add", <<CallEntry("add_task", r.result)>>, task_info, r.store, r.next_id,
         NoResolve,
         <<CrudCall("add_task", task_info.title, PriorityArg(task_info), "",
                    r.result.success)>>)

\* the add branch once add_task has returned r: the state is cleared
AddBranchDone(task_info, r) ==
  Branch("add", <<CallEntry("add_task", r.result)>>, NoState, r.store, r.next_id,
         NoResolve,
         <<CrudCall("add_task", task_info.title, PriorityArg(task_info), "",
                    r.result.success)>>)

\* the add branch that calls add_task whether or not there is a title
AddBranchAlwaysCalls(task_info, user_id, store, nid, outcome) ==
  AddBranchDone(task_info,
                AddTask(store, nid, user_id, task_info.title, task_info.due_date,
                        PriorityArg(task_info), outcome))

\* the add branch: create when the slots are complete, else keep them
AddBranch(task_info, user_id, store, nid, outcome) ==
  IF IsTaskInfoComplete(task_info)
    THEN AddBranchDone(task_info,
                       AddTask(store, nid, user_id, task_info.title,
                               task_info.due_date, PriorityArg(task_info), outcome))
    ELSE Branch("add", <<>>, task_info, store, nid, NoResolve, <<>>)

\* the list branch once list_tasks has returned r
ListBranch(r, store, nid) ==
  Branch("list", <<CallEntry("list_tasks", r)>>,
         IF r.success /\ Len(r.tasks) > 0 THEN MappingState(r.tasks) ELSE NoState,
         store, nid, NoResolve,
         <<CrudCall("list_tasks", NoTitle, "", "", r.success)>>)

\* the complete/delete branch once the tool has returned r for task id
ReferenceBranchDone(tool, res, id, r, cs, nid) ==
  Branch(tool, <<CallEntry(tool, r.result)>>, cs, r.store, nid, res,
         <<CrudCall(tool, NoTitle, "", id, r.result.success)>>)

\* the complete/delete branch on the resolved reference res
ReferenceBranch(tool, res, user_id, cs, store, nid, outcome) ==
  IF Truthy(res.task_id)
    THEN ReferenceBranchDone(tool, res, IntToStr(res.task_id.v),
           IF tool = "complete_task"
             THEN CompleteTask(store, user_id, IntToStr(res.task_id.v), outcome)
             ELSE DeleteTask(store, user_id, IntToStr(res.task_id.v), outcome),
           cs, nid)
    ELSE Branch(tool, <<ErrorEntry(tool, CouldNotIdentify(tool))>>, cs, store, nid,
                res, <<>>)

\* steps 3 to 6 of _parse_and_execute_tools for a detected intent.
\* call_tool catches every Exception itself, so the except branches around
\* the tool calls are never entered and are not part of the model.
ExecuteBranch(intent, m, user_id, cs, store, nid, outcome, rows) ==
  IF intent = "adding_task" \/ StateIntent(cs) = "adding_task"
    THEN AddBranch(ExtractTaskInfo(m, cs), user_id, store, nid, outcome)
  ELSE IF intent = "listing_tasks"
    THEN ListBranch(ListTasks(store, user_id, ListLimit, outcome), store, nid)
  ELSE IF intent = "completing_task"
    THEN ReferenceBranch("complete_task", ResolveTaskReference(m, cs, rows),
                         user_id, cs, store, nid, outcome)
  ELSE IF intent = "deleting_task"
    THEN ReferenceBranch("delete_task", ResolveTaskReference(m, cs, rows),
                         user_id, cs, store, nid, outcome)
  ELSE Branch("none", <<>>, NoState, store, nid, NoResolve, <<>>)

\* the entries of the message list handed to the completion service
Entry(role, kind, text, summary) ==
  [role |-> role, kind |-> kind, text |-> text, summary |-> summary]

LastN(q, n) == IF Len(q) <= n THEN q ELSE SubSeq(q, Len(q) - n + 1, Len(q))

\* _build_conversation_history: the newest messages, oldest first.  Only the
\* text of the message just saved is kept; older texts are passed through.
BuildHistory(msgs, m) ==
  LET recent == LastN(msgs, max_conversation_history)
  IN [i \in 1..Len(recent) |->
        IF i = Len(recent) THEN Entry(recent[i].role, "text", m, <<>>)
        ELSE Entry(recent[i].role, "earlier", <<>>, <<>>)]

\* step 4.6 with the tool results left out
WithToolResultsDropped(hist, calls) == hist

\* step 4.6: tool results appended as a system entry when a tool call was recorded
WithToolResults(hist, calls) ==
  IF Len(calls) > 0
    THEN Append(hist, Entry("system", "tool_results", <<>>, FormatToolResults(calls)))
    ELSE hist

\* the messages array of _call_openrouter_simple
CompletionInput(hist, m) ==
  LET msgs == <<Entry("system", "prompt", <<>>, <<>>)>> \o hist
      last == msgs[Len(msgs)]
  IN IF last.kind = "text" /\ last.text = m THEN msgs
     ELSE Append(msgs, Entry("user", "text", m, <<>>))

NoResponse == [present |-> FALSE, tool_calls |-> <<>>]

\* _save_message that loses the row
SaveMessageLost(msgs, role, state) == msgs

\* _save_message: one more row in the conversation; the state blob goes
\* through the JSON column
SaveMessage(msgs, role, state) ==
  Append(msgs, [role |-> role, state |-> JsonState(state)])

\* messages the user sends in the modelled conversation
ChatMessages ==
  {<<"add", "task">>,
   <<"add", "task", "milk">>,
   <<"add", "task", "lunch", "high">>,
   <<"lunch">>,
   <<"show", "tasks">>,
   <<"complete", "task", "1">>,
   <<"delete", "task", "2">>,
   <<"complete", "task", "0">>,
   <<"delete", "Lunch", "task">>,
   <<"task", "done">>}

\* titles of the tasks created through the REST endpoint
RestTitles == {<<"Lunch">>}

VARIABLES tasks, next_id, rest_creates, messages, pc, user_message, history,
          intent, current_state, resolved, tool_calls, conversation_state, crud,
          ai_messages, response, trace, last_create_ok, prev_create_ok, tasks_seen

vars == <<tasks, next_id, rest_creates, messages, pc, user_message, history,
          intent, current_state, resolved, tool_calls, conversation_state, crud,
          ai_messages, response, trace, last_create_ok, prev_create_ok, tasks_seen,
          today, parsed_date, input_text, detected_language, requests>>

turnVars == <<user_message, history, intent, current_state, resolved, tool_calls,
              conversation_state, crud, ai_messages, response, trace>>

UserTurns(msgs) == Cardinality({i \in 1..Len(msgs) : msgs[i].role = "user"})

Init ==
  /\ tasks = {}
  /\ next_id = 1
  /\ rest_creates = 0
  /\ messages = <<>>
  /\ pc = "idle"
  /\ user_message = <<>>
  /\ history = <<>>
  /\ intent = "none"
  /\ current_state = NoState
  /\ resolved = NoResolve
  /\ tool_calls = <<>>
  /\ conversation_state = NoState
  /\ crud = <<>>
  /\ ai_messages = <<>>
  /\ response = NoResponse
  /\ trace = <<>>
  /\ last_create_ok = FALSE
  /\ prev_create_ok = FALSE
  /\ tasks_seen = {}
  /\ today = ReferenceDay
  /\ parsed_date = NoDate
  /\ input_text = <<>>
  /\ detected_language = "english"
  /\ requests = <<>>

\* routes/tasks.py create_task: a task created outside the conversation
RestCreateTask(u, title) ==
  /\ rest_creates < MaxRestCreates
  /\ next_id <= MaxTasks
  /\ tasks' = tasks \cup {[id |-> next_id, user_id |-> u, title |-> title,
                           completed |-> FALSE, priority |-> "medium"]}
  /\ next_id' = next_id + 1
  /\ rest_creates' = rest_creates + 1
  /\ UNCHANGED <<messages, pc, last_create_ok, prev_create_ok, tasks_seen>>
  /\ UNCHANGED turnVars
  /\ UNCHANGED functionVars

\* send_message steps 1 to 4: save the user message, build the history
StartTurn(m) ==
  /\ pc \in {"idle", "done", "raised"}
  /\ UserTurns(messages) < MaxTurns
  /\ messages' = SaveMessage(messages, "user", NoState)
  /\ user_message' = m
  /\ history' = BuildHistory(messages', m)
  /\ intent' = "none"
  /\ current_state' = NoState
  /\ resolved' = NoResolve
  /\ tool_calls' = <<>>
  /\ conversation_state' = NoState
  /\ crud' = <<>>
  /\ ai_messages' = <<>>
  /\ response' = NoResponse
  /\ trace' = <<"save_user">>
  /\ pc' = "saved_user"
  /\ tasks_seen' = {}
  /\ UNCHANGED <<tasks, next_id, rest_creates, last_create_ok, prev_create_ok>>
  /\ UNCHANGED functionVars

\* send_message step 4.5: _parse_and_execute_tools
ExecuteTools ==
  /\ pc = "saved_user"
  /\ \E outcome \in CrudOutcomes :
       \E rows \in SearchRows(tasks, ChatUser, ResolveTitle(user_message)) :
         \E x \in {ExecuteBranch(DetectIntent(user_message), user_message, ChatUser,
                                 LastAssistantState(messages), tasks, next_id,
                                 outcome, rows)} :
            /\ x.next_id <= MaxTasks + 1
            /\ intent' = DetectIntent(user_message)
            /\ current_state' = LastAssistantState(messages)
            /\ resolved' = x.resolved
            /\ tool_calls' = x.tool_calls
            /\ conversation_state' = x.conversation_state
            /\ crud' = x.crud
            /\ tasks' = x.store
            /\ next_id' = x.next_id
            /\ trace' = trace \o [i \in 1..Len(x.crud) |-> "crud"] \o <<"tools_done">>
            /\ tasks_seen' = tasks
            /\ prev_create_ok' = last_create_ok
            /\ last_create_ok' =
                 (Len(x.crud) = 1 /\ x.crud[1].op = "add_task" /\ x.crud[1].success)
  /\ pc' = "tools_done"
  /\ UNCHANGED <<rest_creates, messages, user_message, history, ai_messages, response>>
  /\ UNCHANGED functionVars

\* send_message steps 4.6 and 5: the completion service answers
CallCompletionOk ==
  /\ pc = "tools_done"
  /\ ai_messages' = CompletionInput(WithToolResults(history, tool_calls), user_message)
  /\ trace' = Append(trace, "completion")
  /\ pc' = "ai_done"
  /\ UNCHANGED <<tasks, next_id, rest_creates, messages, user_message, history, intent,
                 current_state, resolved, tool_calls, conversation_state, crud, response,
                 last_create_ok, prev_create_ok, tasks_seen>>
  /\ UNCHANGED functionVars

\* a failing completion call that is answered with a response all the same
CallCompletionFailReturns ==
  /\ pc = "tools_done"
  /\ ai_messages' = CompletionInput(WithToolResults(history, tool_calls), user_message)
  /\ trace' = Append(trace, "completion")
  /\ response' = [present |-> TRUE, tool_calls |-> tool_calls]
  /\ pc' = "done"
  /\ UNCHANGED <<tasks, next_id, rest_creates, messages, user_message, history, intent,
                 current_state, resolved, tool_calls, conversation_state, crud,
                 last_create_ok, prev_create_ok, tasks_seen>>
  /\ UNCHANGED functionVars

\* _call_openrouter_simple: the call fails and HTTPException(500) leaves send_message
CallCompletionFail ==
  /\ pc = "tools_done"
  /\ ai_messages' = CompletionInput(WithToolResults(history, tool_calls), user_message)
  /\ trace' = Append(trace, "completion")
  /\ pc' = "raised"
  /\ UNCHANGED <<tasks, next_id, rest_creates, messages, user_message, history, intent,
                 current_state, resolved, tool_calls, conversation_state, crud, response,
                 last_create_ok, prev_create_ok, tasks_seen>>
  /\ UNCHANGED functionVars

\* send_message steps 6 to 8: save the reply with the state blob, return
SaveAssistant ==
  /\ pc = "ai_done"
  /\ messages' = SaveMessage(messages, "assistant", conversation_state)
  /\ response' = [present |-> TRUE, tool_calls |-> tool_calls]
  /\ trace' = Append(trace, "save_assistant")
  /\ pc' = "done"
  /\ UNCHANGED <<tasks, next_id, rest_creates, user_message, history, intent,
                 current_state, resolved, tool_calls, conversation_state, crud,
                 ai_messages, last_create_ok, prev_create_ok, tasks_seen>>
  /\ UNCHANGED functionVars

Next ==
  \/ \E u \in Users, title \in RestTitles : RestCreateTask(u, title)
  \/ \E m \in ChatMessages : StartTurn(m)
  \/ ExecuteTools
  \/ CallCompletionOk
  \/ CallCompletionFail
  \/ SaveAssistant

Spec == Init /\ [][Next]_vars

\* ------------------------------------------- the classifier on its own
\* words of the messages the classifier is run on
ClassifyVocab ==
  {"delete", "remove", "complete", "mark", "done", "add", "new", "show", "my",
   "task", "tasks", "lunch", "kaam", "Delete"}

RECURSIVE SeqsUpTo(_, _)
\* the sequences over S of length 1..n
SeqsUpTo(S, n) ==
  IF n = 0 THEN {}
  ELSE LET shorter == SeqsUpTo(S, n - 1)
       IN {<<w>> : w \in S} \cup shorter \cup {Append(q, w) : q \in shorter, w \in S}

InitClassify ==
  /\ user_message \in SeqsUpTo(ClassifyVocab, MaxMsgLen)
  /\ pc = "classify"
  /\ tasks = {}
  /\ next_id = 1
  /\ rest_creates = 0
  /\ messages = <<>>
  /\ history = <<>>
  /\ intent = "none"
  /\ current_state = NoState
  /\ resolved = NoResolve
  /\ tool_calls = <<>>
  /\ conversation_state = NoState
  /\ crud = <<>>
  /\ ai_messages = <<>>
  /\ response = NoResponse
  /\ trace = <<>>
  /\ last_create_ok = FALSE
  /\ prev_create_ok = FALSE
  /\ tasks_seen = {}
  /\ today = ReferenceDay
  /\ parsed_date = NoDate
  /\ input_text = <<>>
  /\ detected_language = "english"
  /\ requests = <<>>

\* step 1 of _parse_and_execute_tools: intent = self._detect_intent(user_message)
Classify ==
  /\ pc = "classify"
  /\ intent' = DetectIntent(user_message)
  /\ pc' = "classified"
  /\ UNCHANGED <<tasks, next_id, rest_creates, messages, user_message, history,
                 current_state, resolved, tool_calls, conversation_state, crud,
                 ai_messages, response, trace, last_create_ok, prev_create_ok,
                 tasks_seen>>
  /\ UNCHANGED functionVars

NextClassify == Classify

SpecClassify == InitClassify /\ [][NextClassify]_vars

\* --------------------------------------- the scenarios of the specification
\* the messages of the slot-filling and end-to-end examples, and messages
\* that name a due date
ScenarioMessages ==
  {<<"add", "a", "task">>,
   <<"call", "the", "dentist">>,
   <<"Add", "buy", "milk", "to", "my", "tasks">>,
   <<"add", "task", "lunch", "tomorrow">>,
   <<"add", "task", "lunch", "2026-01-20">>,
   <<"add", "task", "lunch", "2026-13-45">>}

NextScenario ==
  \/ \E u \in Users, title \in RestTitles : RestCreateTask(u, title)
  \/ \E m \in ScenarioMessages : StartTurn(m)
  \/ ExecuteTools
  \/ CallCompletionOk
  \/ CallCompletionFail
  \/ SaveAssistant

SpecScenario == Init /\ [][NextScenario]_vars

\* ------------------------ the extractor, resolver and date parser on their own
\* the names of the weekdays dict
WeekdayNames == {weekdays[k].name : k \in DOMAIN weekdays}

\* messages the three functions are run on
FunctionMessages ==
  {<<d>> : d \in WeekdayNames} \cup
  {<<"next", "monday">>, <<"mondays">>,
   <<"call", "low", "dentist">>, <<"work", "lunch">>, <<"lunch", "tomorrow">>,
   <<"priority:", "low">>, <<"category:", "work">>, <<"due", "date:", "tomorrow">>,
   <<"lunch">>,
   <<"monday", "tomorrow">>, <<"tomorrow", "today">>, <<"next", "week", "friday">>,
   <<"friday", "u067E_u06CC_u0631">>, <<"u062C_u0645_u0639_u06C1", "2026-01-20">>,
   <<"2026-01-20", "sunday">>, <<"2026-01-20">>, <<"u06C1_u0641_u062A_u06C1">>,
   <<"complete", "task", "1">>, <<"delete", "task", "2">>, <<"complete", "task", "3">>,
   <<"complete", "task", "0">>, <<"delete", "Lunch", "task">>, <<"task", "done">>}

\* the state of a list turn that returned the tasks with these ids
MappingOf(ids) ==
  [EmptyDict EXCEPT
     !.has_mapping = TRUE,
     !.task_mapping = [k \in {IntKey(p) : p \in 1..Len(ids)} |-> ids[k.n]],
     !.task_count = Len(ids)]

\* states a turn can hand to _save_message: none, the slots of an unfinished
\* add dialogue, the mapping of a list turn
MemoryStates ==
  {NoState}
  \cup {[EmptyDict EXCEPT !.intent = "adding_task", !.priority = p, !.category = c,
                          !.due_date = d] :
          p \in {"absent", "high"}, c \in {"absent", "personal"},
          d \in {"absent", Isoformat[4]}}
  \cup {MappingOf(<<a>>) : a \in 1..MaxTasks}
  \cup {MappingOf(<<ab[1], ab[2]>>) :
          ab \in {p \in (1..MaxTasks) \X (1..MaxTasks) : p[1] # p[2]}}

\* a stored mapping with one more entry whose key is no number
WithForeignKey(st) ==
  [st EXCEPT !.task_mapping =
     [k \in DOMAIN st.task_mapping \cup {StrKey("abc")} |->
        IF k \in DOMAIN st.task_mapping THEN st.task_mapping[k] ELSE 1]]

\* what can be read back for a state that was saved
ReadBack(st) ==
  IF st.has_mapping THEN {JsonState(st), WithForeignKey(JsonState(st))}
  ELSE {JsonState(st)}

\* the tasks the title search of the resolver works on
FunctionStore ==
  {[id |-> 1, user_id |-> "alice", title |-> <<"Lunch">>, completed |-> FALSE,
    priority |-> "medium"],
   [id |-> 2, user_id |-> "bob", title |-> <<"Lunch">>, completed |-> FALSE,
    priority |-> "medium"]}

InitFunctions ==
  /\ user_message \in FunctionMessages
  /\ conversation_state \in MemoryStates
  /\ current_state \in ReadBack(conversation_state)
  /\ today \in WeekdayNumbers
  /\ tasks = FunctionStore
  /\ pc = "call"
  /\ parsed_date = NoDate
  /\ input_text = <<>>
  /\ detected_language = "english"
  /\ requests = <<>>
  /\ next_id = 3
  /\ rest_creates = 0
  /\ messages = <<>>
  /\ history = <<>>
  /\ intent = "none"
  /\ resolved = NoResolve
  /\ tool_calls = <<>>
  /\ crud = <<>>
  /\ ai_messages = <<>>
  /\ response = NoResponse
  /\ trace = <<>>
  /\ last_create_ok = FALSE
  /\ prev_create_ok = FALSE
  /\ tasks_seen = {}

\* task_info = self._extract_task_info(user_message, current_state)
ExtractSlots ==
  /\ pc = "call"
  /\ conversation_state' = ExtractTaskInfo(user_message, current_state)
  /\ pc' = "extracted"
  /\ UNCHANGED <<tasks, next_id, rest_creates, messages, user_message, history, intent,
                 current_state, resolved, tool_calls, crud, ai_messages, response,
                 trace, last_create_ok, prev_create_ok, tasks_seen, today, parsed_date,
                 input_text, detected_language, requests>>

\* task_id = await self._resolve_task_reference(user_message, user_id, current_state)
ResolveReference ==
  /\ pc = "call"
  /\ \E rows \in SearchRows(tasks, ChatUser, ResolveTitle(user_message)) :
       resolved' = ResolveTaskReference(user_message, current_state, rows)
  /\ pc' = "resolved"
  /\ UNCHANGED <<tasks, next_id, rest_creates, messages, user_message, history, intent,
                 current_state, conversation_state, tool_calls, crud, ai_messages,
                 response, trace, last_create_ok, prev_create_ok, tasks_seen, today,
                 parsed_date, input_text, detected_language, requests>>

\* due_date = self._parse_natural_date(message)
ParseDate ==
  /\ pc = "call"
  /\ parsed_date' = ParseNaturalDate(user_message, today)
  /\ pc' = "parsed"
  /\ UNCHANGED <<tasks, next_id, rest_creates, messages, user_message, history, intent,
                 current_state, conversation_state, resolved, tool_calls, crud,
                 ai_messages, response, trace, last_create_ok, prev_create_ok,
                 tasks_seen, today, input_text, detected_language, requests>>

NextFunctions == ExtractSlots \/ ResolveReference \/ ParseDate

SpecFunctions == InitFunctions /\ [][NextFunctions]_vars

\* ------------------------------------------------- the language detector
\* a character of a text: in U+0600..U+06FF, whitespace, or anything else
CharClasses == {"urdu", "space", "other"}

\* the percentage the share of Urdu characters has to exceed
UrduThreshold == 30

\* the number of characters of the text that are of one of the classes
CountChars(chars, classes) ==
  Cardinality({i \in 1..Len(chars) : chars[i] \in classes})

\* detect_language that takes the threshold itself for Urdu
DetectLanguageAtLeast(chars) ==
  IF CountChars(chars, {"urdu", "other"}) = 0 THEN "english"
  ELSE IF CountChars(chars, {"urdu"}) * 100
            >= UrduThreshold * CountChars(chars, {"urdu", "other"})
    THEN "urdu"
  ELSE "english"

\* detect_language: english for an empty or blank text; else
\* (urdu_chars / total_chars) * 100 > 30, total_chars the characters that
\* are no whitespace.  The quotient is kept exact: for the lengths at hand
\* the float product is 30.0 exactly when the share is 3/10 and lies on the
\* same side of 30 as the exact value otherwise.
DetectLanguage(chars) ==
  IF CountChars(chars, {"urdu", "other"}) = 0 THEN "english"
  ELSE IF CountChars(chars, {"urdu"}) * 100
            > UrduThreshold * CountChars(chars, {"urdu", "other"})
    THEN "urdu"
  ELSE "english"

InitLanguage ==
  /\ input_text \in UNION {[1..n -> CharClasses] : n \in 0..MaxTextLen}
  /\ detected_language = "english"
  /\ requests = <<>>
  /\ pc = "detect"
  /\ today = ReferenceDay
  /\ parsed_date = NoDate
  /\ tasks = {}
  /\ next_id = 1
  /\ rest_creates = 0
  /\ messages = <<>>
  /\ user_message = <<>>
  /\ history = <<>>
  /\ intent = "none"
  /\ current_state = NoState
  /\ resolved = NoResolve
  /\ tool_calls = <<>>
  /\ conversation_state = NoState
  /\ crud = <<>>
  /\ ai_messages = <<>>
  /\ response = NoResponse
  /\ trace = <<>>
  /\ last_create_ok = FALSE
  /\ prev_create_ok = FALSE
  /\ tasks_seen = {}

\* send_message step 2: detected_language = detect_language(request.message)
Detect ==
  /\ pc = "detect"
  /\ detected_language' = DetectLanguage(input_text)
  /\ pc' = "detected"
  /\ UNCHANGED <<tasks, next_id, rest_creates, messages, user_message, history, intent,
                 current_state, resolved, tool_calls, conversation_state, crud,
                 ai_messages, response, trace, last_create_ok, prev_create_ok,
                 tasks_seen, today, parsed_date, input_text, requests>>

NextLanguage == Detect

SpecLanguage == InitLanguage /\ [][NextLanguage]_vars

\* ------------------------------ send_message calls on one conversation
\* messages of the requests that run side by side
RequestMessages == {<<"add", "task">>, <<"lunch">>}

\* the local variables of a send_message call that has not started; read_len
\* and wrote are the lengths of the message table at its read of the state
\* and after its write, alone tells that no other call was under way at the read
NewRequest ==
  [pc |-> "new", user_message |-> <<>>, intent |-> "none", current_state |-> NoState,
   conversation_state |-> NoState, crud |-> <<>>, tool_calls |-> <<>>,
   resolved |-> NoResolve, read_len |-> 0, wrote |-> 0, alone |-> FALSE]

\* the call is between its first and its last database write
InFlight(q) == requests[q].pc \in {"saved_user", "tools_done", "ai_done"}

\* the conversation after the turn 'add task': its user message and the reply
\* with the adding_task state that has no title yet
AwaitingConversation ==
  SaveMessage(SaveMessage(<<>>, "user", NoState), "assistant",
              [EmptyDict EXCEPT !.intent = "adding_task"])

\* n calls that have not started, on a conversation with the messages msgs
InitRequests(n, msgs) ==
  /\ requests = [r \in 1..n |-> NewRequest]
  /\ messages = msgs
  /\ tasks = {}
  /\ next_id = 1
  /\ rest_creates = 0
  /\ pc = "idle"
  /\ user_message = <<>>
  /\ history = <<>>
  /\ intent = "none"
  /\ current_state = NoState
  /\ resolved = NoResolve
  /\ tool_calls = <<>>
  /\ conversation_state = NoState
  /\ crud = <<>>
  /\ ai_messages = <<>>
  /\ response = NoResponse
  /\ trace = <<>>
  /\ last_create_ok = FALSE
  /\ prev_create_ok = FALSE
  /\ tasks_seen = {}
  /\ today = ReferenceDay
  /\ parsed_date = NoDate
  /\ input_text = <<>>
  /\ detected_language = "english"

\* calls that arrive while the add dialogue waits for the title
InitConcurrent == InitRequests(MaxTurns, AwaitingConversation)

sharedVars == <<rest_creates, pc, user_message, history, intent, current_state, resolved,
                tool_calls, conversation_state, crud, ai_messages, response, trace,
                last_create_ok, prev_create_ok, tasks_seen, today, parsed_date,
                input_text, detected_language>>

\* send_message step 3 of call r: the user message is saved.  The calls are
\* numbered in the order of their arrival.
Receive(r, m) ==
  /\ requests[r].pc = "new"
  /\ \A q \in 1..(r - 1) : requests[q].pc # "new"
  /\ messages' = SaveMessage(messages, "user", NoState)
  /\ requests' = [requests EXCEPT ![r].pc = "saved_user", ![r].user_message = m]
  /\ UNCHANGED <<tasks, next_id>>
  /\ UNCHANGED sharedVars

\* send_message step 4.5 of call r: the state of the newest assistant
\* message is read and the tools are run on it
RunTools(r) ==
  /\ requests[r].pc = "saved_user"
  /\ \E outcome \in CrudOutcomes,
        rows \in SearchRows(tasks, ChatUser, ResolveTitle(requests[r].user_message)) :
       \E x \in {ExecuteBranch(DetectIntent(requests[r].user_message),
                               requests[r].user_message, ChatUser,
                               LastAssistantState(messages), tasks, next_id,
                               outcome, rows)} :
         /\ x.next_id <= MaxTasks + 1
         /\ tasks' = x.store
         /\ next_id' = x.next_id
         /\ requests' =
              [requests EXCEPT
                 ![r].pc = "tools_done",
                 ![r].intent = DetectIntent(requests[r].user_message),
                 ![r].current_state = LastAssistantState(messages),
                 ![r].conversation_state = x.conversation_state,
                 ![r].crud = x.crud,
                 ![r].tool_calls = x.tool_calls,
                 ![r].resolved = x.resolved,
                 ![r].read_len = Len(messages),
                 ![r].alone = \A q \in DOMAIN requests \ {r} : ~InFlight(q)]
  /\ UNCHANGED messages
  /\ UNCHANGED sharedVars

\* send_message step 5 of call r: the completion service answers or fails
Complete(r, ok) ==
  /\ requests[r].pc = "tools_done"
  /\ requests' = [requests EXCEPT ![r].pc = IF ok THEN "ai_done" ELSE "raised"]
  /\ UNCHANGED <<tasks, next_id, messages>>
  /\ UNCHANGED sharedVars

\* send_message step 6 of call r: the reply is saved with the state blob
Reply(r) ==
  /\ requests[r].pc = "ai_done"
  /\ messages' = SaveMessage(messages, "assistant", requests[r].conversation_state)
  /\ requests' = [requests EXCEPT ![r].pc = "done", ![r].wrote = Len(messages')]
  /\ UNCHANGED <<tasks, next_id>>
  /\ UNCHANGED sharedVars

NextConcurrent ==
  \/ \E r \in DOMAIN requests, m \in RequestMessages : Receive(r, m)
  \/ \E r \in DOMAIN requests : RunTools(r)
  \/ \E r \in DOMAIN requests, ok \in BOOLEAN : Complete(r, ok)
  \/ \E r \in DOMAIN requests : Reply(r)

SpecConcurrent == InitConcurrent /\ [][NextConcurrent]_vars

\* ------------------------ send_message calls processed one at a time
\* messages of a conversation that lists tasks and refers to them by position
ReferenceMessages ==
  {<<"show", "tasks">>, <<"lunch">>, <<"complete", "task", "1">>,
   <<"delete", "task", "1">>}

\* calls on a new conversation
InitSequential == InitRequests(MaxRequests, <<>>)

NextSequential ==
  \/ \E u \in Users, title \in RestTitles : RestCreateTask(u, title)
  \/ \E r \in DOMAIN requests, m \in ReferenceMessages :
       (\A q \in DOMAIN requests : ~InFlight(q)) /\ Receive(r, m)
  \/ \E r \in DOMAIN requests : RunTools(r)
  \/ \E r \in DOMAIN requests, ok \in BOOLEAN : Complete(r, ok)
  \/ \E r \in DOMAIN requests : Reply(r)

SpecSequential == InitSequential /\ [][NextSequential]_vars

\* ================================================================== claims
\* the turn has run _parse_and_execute_tools
PostTools == pc \in {"tools_done", "ai_done", "done", "raised"}

\* the completion service has been called in this turn
PostCompletion == pc \in {"ai_done", "done", "raised"}

\* the tool-result lines of the message list given to the completion service
SummaryLines ==
  UNION {{ai_messages[i].summary[j] : j \in DOMAIN ai_messages[i].summary} :
           i \in {k \in DOMAIN ai_messages :
                    ai_messages[k].role = "system" /\ ai_messages[k].kind = "tool_results"}}

\* the tool of the transition-table row of a list, complete or delete intent
RowTool ==
  CASE intent = "listing_tasks" -> "list_tasks"
    [] intent = "completing_task" -> "complete_task"
    [] intent = "deleting_task" -> "delete_task"
    [] OTHER -> "none"

\* C1: in every current state, a turn whose message classifies as list,
\* complete or delete performs that row of the transition table and not
\* create-task, and no adding_task state is carried on.
C1_OtherIntentLeavesAddDialogue ==
  (PostTools /\ intent \in {"listing_tasks", "completing_task", "deleting_task"}) =>
    /\ \A i \in DOMAIN crud : crud[i].op # "add_task"
    /\ Len(tool_calls) = 1
    /\ tool_calls[1].tool = RowTool
    /\ StateIntent(conversation_state) # "adding_task"

\* C2: a turn handled as add-task whose slots have a title invokes create-task
\* with that title and priority defaulting to medium, and after a successful
\* create the state the next turn reads (the blob of the newest assistant
\* message) is empty, at the end of that turn and when the next turn reads it.
C2_CreateClearsStateForNextTurn ==
  /\ (/\ PostTools
      /\ (intent = "adding_task" \/ StateIntent(current_state) = "adding_task")
      /\ ExtractTaskInfo(user_message, current_state).title # NoTitle) =>
       LET info == ExtractTaskInfo(user_message, current_state)
       IN /\ Len(crud) = 1
          /\ crud[1].op = "add_task"
          /\ crud[1].title = info.title
          /\ crud[1].priority =
               (IF info.priority = "absent" THEN "medium" ELSE info.priority)
  /\ (pc \in {"done", "raised"} /\ last_create_ok) =>
       ~StateTruthy(LastAssistantState(messages))
  /\ (PostTools /\ prev_create_ok) => ~StateTruthy(current_state)

C4_EveryTurnEndsWithReply ==
  pc \in {"done", "raised"} =>
    /\ Len(messages) >= 2
    /\ messages[Len(messages)].role = "assistant"
    /\ messages[Len(messages) - 1].role = "user"
    /\ response.present

\* C4 amended: the user message is persisted first; for every outcome of
\* the CRUD collaborator a turn whose completion call succeeds persists
\* exactly one assistant reply after it and returns it with the tool-call
\* metadata; a turn whose completion call fails ends in the raised HTTP
\* error with no assistant reply persisted and nothing returned.
C4_ReplyUnlessCompletionFails ==
  /\ pc \in {"saved_user", "tools_done", "ai_done", "raised"} =>
       /\ Len(messages) >= 1
       /\ messages[Len(messages)].role = "user"
       /\ ~response.present
  /\ pc = "done" =>
       /\ Len(messages) >= 2
       /\ messages[Len(messages)].role = "assistant"
       /\ messages[Len(messages) - 1].role = "user"
       /\ response.present
       /\ response.tool_calls = tool_calls
       /\ trace[Len(trace)] = "save_assistant"
  /\ pc = "raised" => trace[Len(trace)] = "completion"

C4_Witness ==
  /\ pc = "done"
  /\ Len(crud) = 1
  /\ ~crud[1].success
  /\ messages[Len(messages)].role = "assistant"

\* C5: a failed CRUD call is recorded with success=false, its error string
\* is in the summary given to the completion service, and the completion
\* service is still called.
C5_FailureErrorInSummary ==
  (PostCompletion /\ Len(crud) = 1 /\ ~crud[1].success) =>
    /\ Len(tool_calls) = 1
    /\ ~tool_calls[1].success
    /\ \E line \in SummaryLines :
         /\ ~line.ok
         /\ line.tool = crud[1].op
         /\ line.text = tool_calls[1].result.error
    /\ \E i \in DOMAIN trace : trace[i] = "completion"

\* the reference of the message resolves to no task in the store of the turn
UnresolvedReference ==
  \A rows \in SearchRows(tasks_seen, ChatUser, ResolveTitle(user_message)) :
    ~Truthy(ResolveTaskReference(user_message, current_state, rows).task_id)

\* C6: in a complete- or delete-intent turn with an unresolved reference no
\* complete/delete call is made and a failed tool-call entry with the
\* 'could not identify which task' message is recorded and reaches the
\* completion service.
C6_UnresolvedIsReported ==
  (PostTools /\ intent \in {"completing_task", "deleting_task"} /\ UnresolvedReference) =>
    /\ crud = <<>>
    /\ tool_calls = <<ErrorEntry(RowTool, CouldNotIdentify(RowTool))>>
    /\ PostCompletion =>
         \E line \in SummaryLines :
           ~line.ok /\ line.tool = RowTool /\ line.text = CouldNotIdentify(RowTool)

\* C7: classify returns the intent of the first family, in the order delete,
\* complete, add, list, that matches the message, and none when none matches.
C7_FirstFamilyWins ==
  pc = "classified" =>
    LET m == LowerSeq(user_message)
    IN /\ MatchesDelete(m) => intent = "deleting_task"
       /\ (~MatchesDelete(m) /\ MatchesComplete(m)) => intent = "completing_task"
       /\ (~MatchesDelete(m) /\ ~MatchesComplete(m) /\ MatchesAdd(m)) =>
            intent = "adding_task"
       /\ (~MatchesDelete(m) /\ ~MatchesComplete(m) /\ ~MatchesAdd(m) /\ MatchesList(m)) =>
            intent = "listing_tasks"
       /\ (~MatchesDelete(m) /\ ~MatchesComplete(m) /\ ~MatchesAdd(m) /\ ~MatchesList(m)) =>
            intent = "none"

\* a message of both the first and the last family is classified as the first
C7_Witness ==
  /\ pc = "classified"
  /\ MatchesDelete(LowerSeq(user_message))
  /\ MatchesList(LowerSeq(user_message))
  /\ intent = "deleting_task"

\* C8: with a number n after 'task'/'id', a task_mapping in the prior state
\* and 1 <= n <= task_count, resolve returns the mapping's value for
\* position n, not the literal n.
C8_PositionWinsOverLiteral ==
  (/\ PostTools
   /\ resolved.by # "not_run"
   /\ ~resolved.number.isNone
   /\ StateTruthy(current_state)
   /\ DOMAIN current_state.task_mapping # {}
   /\ 1 <= resolved.number.v
   /\ resolved.number.v <= current_state.task_count) =>
    /\ StrKey(IntToStr(resolved.number.v)) \in DOMAIN current_state.task_mapping
    /\ resolved.task_id =
         Some(current_state.task_mapping[StrKey(IntToStr(resolved.number.v))])
    /\ resolved.by = "position"

C8_Witness ==
  /\ PostTools
  /\ resolved.by = "position"
  /\ resolved.number.v = 1
  /\ resolved.task_id.v # 1
  /\ \E t \in tasks : t.id = 1 /\ t.user_id = ChatUser

\* C9: whenever a number was extracted resolve returns a task ID: the
\* mapping value when positional resolution applies, otherwise the number
\* itself (0 and positions without a mapping entry included); unresolved
\* only when no signal was extracted or the title search finds nothing.
C9_NumberAlwaysResolves ==
  (PostTools /\ resolved.by # "not_run") =>
    /\ ~resolved.number.isNone =>
         LET n == resolved.number.v
             key == StrKey(IntToStr(n))
             positional ==
               /\ StateTruthy(current_state)
               /\ 1 <= n /\ n <= current_state.task_count
               /\ key \in DOMAIN current_state.task_mapping
         IN /\ ~resolved.task_id.isNone
            /\ resolved.task_id.v =
                 (IF positional THEN current_state.task_mapping[key] ELSE n)
    /\ resolved.task_id.isNone =>
         /\ resolved.number.isNone
         /\ (resolved.title = NoTitle \/ resolved.rows = <<>>)

\* C10: the title search runs only when no number was extracted, looks at
\* the calling user's tasks by case-insensitive partial match, and gives
\* unresolved for no match, the ID for one match, and for several the
\* exactly titled task if the user has one, else the first match.
C10_TitleSearch ==
  (PostTools /\ resolved.by # "not_run" /\ resolved.title # NoTitle) =>
    LET q == resolved.title
        rowSet == {resolved.rows[i] : i \in DOMAIN resolved.rows}
        own == {t \in tasks_seen : t.user_id = ChatUser /\ TitleILike(t.title, q)}
        exact == {t \in own : LowerSeq(t.title) = LowerSeq(q)}
    IN /\ resolved.number.isNone
       /\ rowSet \subseteq own
       /\ own = {} => resolved.task_id.isNone
       /\ Cardinality({t.id : t \in own}) = 1 =>
            \E t \in own : resolved.task_id = Some(t.id)
       /\ Cardinality({t.id : t \in own}) > 1 =>
            IF exact # {}
              THEN \E t \in exact : resolved.task_id = Some(t.id)
              ELSE resolved.task_id = Some(resolved.rows[1].id)

\* the state blob persisted with the assistant reply of the finished turn
PersistedState == messages[Len(messages)].state

\* C11: a complete- or delete-intent turn persists, with its reply, the
\* state it read (same task_mapping and task_count), resolved or not,
\* collaborator success or failure.
C11_ReferenceTurnKeepsState ==
  (pc = "done" /\ intent \in {"completing_task", "deleting_task"}) =>
    /\ PersistedState = current_state
    /\ PersistedState.task_mapping = current_state.task_mapping
    /\ PersistedState.task_count = current_state.task_count

\* C12: after a list turn whose list call returned n >= 1 tasks the
\* persisted state has task_count = n, maps exactly the positions 1..n, each
\* to the id of the task at that place of the result, and has no
\* adding_task intent; after a failed or empty list it is absent.
C12_ListStoresMapping ==
  (pc = "done" /\ Len(crud) = 1 /\ crud[1].op = "list_tasks") =>
    LET r == tool_calls[1].result
        n == Len(r.tasks)
    IN IF r.success /\ n >= 1
         THEN /\ ~PersistedState.isNone
              /\ PersistedState.has_mapping
              /\ PersistedState.task_count = n
              /\ {KeyToInt(k).v : k \in DOMAIN PersistedState.task_mapping} = 1..n
              /\ \A k \in DOMAIN PersistedState.task_mapping :
                   /\ ~KeyToInt(k).isNone
                   /\ IntToStr(PersistedState.task_mapping[k]) = r.tasks[KeyToInt(k).v].id
              /\ PersistedState.intent # "adding_task"
         ELSE ~StateTruthy(PersistedState)

C12_Witness ==
  /\ pc = "done"
  /\ Len(crud) = 1
  /\ crud[1].op = "list_tasks"
  /\ tool_calls[1].result.success
  /\ Len(tool_calls[1].result.tasks) = 2
  /\ PersistedState.task_count = 2
  /\ \E k \in DOMAIN PersistedState.task_mapping :
       KeyToInt(k).v = 1 /\ PersistedState.task_mapping[k] = 2

\* C15: when the state read is not an adding_task one, the state an add,
\* list or no-intent turn leaves is made from the message and the tool
\* result of the turn alone; nothing of the state read is carried into it.
C15_StateReplacedEachTurn ==
  (/\ PostTools
   /\ StateIntent(current_state) # "adding_task"
   /\ intent \in {"adding_task", "listing_tasks", "none"}) =>
    /\ intent = "none" => conversation_state = NoState
    /\ intent = "adding_task" =>
         conversation_state \in {NoState, ExtractTaskInfo(user_message, NoState)}
    /\ intent = "listing_tasks" =>
         conversation_state =
           (IF tool_calls[1].result.success /\ Len(tool_calls[1].result.tasks) > 0
              THEN MappingState(tool_calls[1].result.tasks) ELSE NoState)

\* C18: no task of another user is ever completed or deleted by the
\* chatting user's turns; a complete or delete call that reaches such a
\* task fails as unauthorized and leaves it as it was; a list result and
\* the mapping made from it hold the chatting user's tasks only.
C18_OnlyOwnTasksTouched ==
  PostTools =>
    /\ \A t \in tasks_seen : t.user_id # ChatUser => t \in tasks
    /\ \A c \in DOMAIN crud :
         (/\ crud[c].op \in {"complete_task", "delete_task"}
          /\ tool_calls[c].result.code # "DATABASE_ERROR"
          /\ \E t \in tasks_seen :
               IntToStr(t.id) = crud[c].task_id /\ t.user_id # ChatUser) =>
           /\ ~crud[c].success
           /\ tool_calls[c].result.code = "UNAUTHORIZED"
    /\ \A c \in DOMAIN crud :
         (crud[c].op = "list_tasks" /\ crud[c].success) =>
           /\ \A i \in DOMAIN tool_calls[c].result.tasks :
                tool_calls[c].result.tasks[i].user_id = ChatUser
           /\ \A k \in DOMAIN conversation_state.task_mapping :
                \E t \in tasks_seen :
                  t.id = conversation_state.task_mapping[k] /\ t.user_id = ChatUser

C18_Witness ==
  /\ PostTools
  /\ Len(crud) = 1
  /\ crud[1].op \in {"complete_task", "delete_task"}
  /\ tool_calls[1].result.code = "UNAUTHORIZED"
  /\ \E t \in tasks :
       IntToStr(t.id) = crud[1].task_id /\ t.user_id # ChatUser /\ ~t.completed

\* the tasks of the store the turn worked on that a delete call names
DeleteTargets == {t \in tasks_seen : IntToStr(t.id) = crud[1].task_id}

\* C19: a delete call on an existing task of the caller succeeds and removes
\* it; a delete call on an id that is no longer in the store (a second
\* delete, also from a later chat turn resolving to the same id) returns
\* the structured 'Task not found' failure, the turn goes on, and the store
\* is not changed.  A failing database access is reported as such.
C19_SecondDeleteNotFound ==
  (/\ PostTools /\ Len(crud) = 1 /\ crud[1].op = "delete_task"
   /\ tool_calls[1].result.code # "DATABASE_ERROR") =>
    /\ (DeleteTargets # {} /\ \A t \in DeleteTargets : t.user_id = ChatUser) =>
         /\ crud[1].success
         /\ DeleteTargets \cap tasks = {}
         /\ (tasks_seen \ DeleteTargets) \subseteq tasks
    /\ DeleteTargets = {} =>
         /\ ~crud[1].success
         /\ ~tool_calls[1].success
         /\ tool_calls[1].result.code = "NOT_FOUND"
         /\ tool_calls[1].result.error = "Task not found"
         /\ tasks_seen \subseteq tasks

\* the id named by the delete call was handed out before and is gone
C19_Witness ==
  /\ PostCompletion
  /\ Len(crud) = 1
  /\ crud[1].op = "delete_task"
  /\ tool_calls[1].result.code = "NOT_FOUND"
  /\ StrToInt(crud[1].task_id).v < next_id
  /\ StrToInt(crud[1].task_id).v >= 1
  /\ \A t \in tasks \cup tasks_seen : IntToStr(t.id) # crud[1].task_id

\* the state read is the one an 'add a task' turn leaves: adding_task, no title
AwaitingTitle ==
  StateIntent(current_state) = "adding_task" /\ current_state.title = NoTitle

\* C13: from an empty state 'add a task' calls no tool and its reply
\* persists an adding_task state without title; the following message
\* 'call the dentist' becomes the title, create-task is called with it and
\* priority medium, and after that turn the state is empty.
C13_SlotFillingRoundTrip ==
  /\ (/\ PostTools /\ user_message = <<"add", "a", "task">>
      /\ ~StateTruthy(current_state)) =>
       /\ intent = "adding_task"
       /\ tool_calls = <<>>
       /\ crud = <<>>
       /\ pc = "done" =>
            /\ PersistedState.intent = "adding_task"
            /\ PersistedState.title = NoTitle
  /\ (PostTools /\ user_message = <<"call", "the", "dentist">> /\ AwaitingTitle) =>
       /\ intent = "none"
       /\ ExtractTaskInfo(user_message, current_state).title = user_message
       /\ IsTaskInfoComplete(ExtractTaskInfo(user_message, current_state))
       /\ Len(crud) = 1
       /\ crud[1].op = "add_task"
       /\ crud[1].title = <<"call", "the", "dentist">>
       /\ crud[1].priority = "medium"
       /\ conversation_state = NoState
       /\ (pc \in {"done", "raised"} /\ crud[1].success) =>
            ~StateTruthy(LastAssistantState(messages))

\* the message has a structured 'label: value' field for the slot
HasStructuredField(m, slot) ==
  CASE slot = "priority" -> \E i \in 1..Len(m) : Lower(m[i]) = "priority:"
    [] slot = "category" -> \E i \in 1..Len(m) : Lower(m[i]) = "category:"
    [] slot = "due_date" -> \E i \in 1..(Len(m) - 1) :
                               Lower(m[i]) = "due" /\ Lower(m[i + 1]) = "date:"

\* C14: the extractor leaves a priority, category or due_date of the prior
\* state as it is unless the message has a structured field for that slot,
\* and never changes a non-empty title of the prior state.
C14_SlotsNotOverwritten ==
  (pc = "extracted" /\ StateTruthy(current_state)) =>
    /\ (current_state.priority # "absent"
        /\ ~HasStructuredField(user_message, "priority")) =>
         conversation_state.priority = current_state.priority
    /\ (current_state.category # "absent"
        /\ ~HasStructuredField(user_message, "category")) =>
         conversation_state.category = current_state.category
    /\ (current_state.due_date # "absent"
        /\ ~HasStructuredField(user_message, "due_date")) =>
         conversation_state.due_date = current_state.due_date
    /\ current_state.title # NoTitle => conversation_state.title = current_state.title

\* C16: resolving against the mapping as it is read back (string keys, with
\* or without an entry whose key is no number) gives what resolving against
\* the integer-keyed mapping that was saved gives.
C16_KeySerializationIgnored ==
  pc = "resolved" =>
    resolved = ResolveTaskReference(user_message, conversation_state, resolved.rows)

C16_Witness ==
  /\ pc = "resolved"
  /\ resolved.by = "position"
  /\ resolved.task_id.v # resolved.number.v
  /\ \A k \in DOMAIN current_state.task_mapping : k.kind = "str"
  /\ \E k \in DOMAIN current_state.task_mapping : KeyToInt(k).isNone
  /\ \A k \in DOMAIN conversation_state.task_mapping : k.kind = "int"

\* C17: 'Add buy milk to my tasks' with an empty prior state is classified
\* as adding_task, 'buy milk' is extracted as the title, create-task is
\* called once with it, so that an open task 'buy milk' of the user exists,
\* and the state left for the next turn is cleared.
C17_AddBuyMilk ==
  (/\ PostTools /\ user_message = <<"Add", "buy", "milk", "to", "my", "tasks">>
   /\ ~StateTruthy(current_state)) =>
    /\ intent = "adding_task"
    /\ ExtractTaskInfo(user_message, current_state).title = <<"buy", "milk">>
    /\ Len(crud) = 1
    /\ crud[1].op = "add_task"
    /\ crud[1].title = <<"buy", "milk">>
    /\ crud[1].success =>
         \E t \in tasks :
           t.title = <<"buy", "milk">> /\ t.user_id = ChatUser /\ ~t.completed
    /\ conversation_state = NoState

\* the weekday numbers of a message that is a bare weekday name
BareWeekday ==
  {weekdays[k].num : k \in {j \in DOMAIN weekdays :
      user_message \in {<<weekdays[j].name>>, <<"next", weekdays[j].name>>}}}

\* C20: for a bare weekday name the parser returns the next day of that
\* weekday strictly after the day of the call: 1 to 7 days later, and 7
\* days later when the day of the call is that weekday.
C20_WeekdayStrictlyAfter ==
  (pc = "parsed" /\ BareWeekday # {}) =>
    /\ ~parsed_date.isNone
    /\ parsed_date.rule = "weekday"
    /\ parsed_date.days \in 1..7
    /\ \A d \in BareWeekday :
         /\ (today + parsed_date.days) % 7 = d
         /\ today = d => parsed_date.days = 7

\* 'next monday' on a Saturday is two days later; 'saturday' a week later
C20_Witness ==
  /\ pc = "parsed"
  /\ today = ReferenceDay
  /\ \/ user_message = <<"next", "monday">> /\ parsed_date.days = 2
     \/ user_message = <<"saturday">> /\ parsed_date.days = 7

\* the order of the date rules as the specification gives it
RuleOrder == <<"today", "tomorrow", "next_week", "weekday", "urdu_weekday", "iso">>

\* the places of RuleOrder whose phrase occurs in the lower-cased text t
RulesIn(t) ==
  {k \in DOMAIN RuleOrder :
     CASE RuleOrder[k] = "today" -> \E i \in 1..Len(t) : t[i] \in TodayWords
       [] RuleOrder[k] = "tomorrow" -> \E i \in 1..Len(t) : t[i] \in TomorrowWords
       [] RuleOrder[k] = "next_week" -> HasNextWeek(t)
       [] RuleOrder[k] = "weekday" ->
            \E i \in 1..Len(t) : \E d \in WeekdayNames : WordContains(t[i], d)
       [] RuleOrder[k] = "urdu_weekday" ->
            \E i \in 1..Len(t) : \E j \in DOMAIN urdu_weekdays :
              t[i] = urdu_weekdays[j].name
       [] RuleOrder[k] = "iso" -> \E i \in 1..Len(t) : t[i] \in IsoTokens}

\* C21: the date parser answers by the first rule, in the order today,
\* tomorrow, next week, Latin weekday, Urdu-script weekday, literal date,
\* whose phrase occurs in the text, and answers None when none occurs:
\* 'tomorrow' with a weekday name gives now + 1 day, and a literal date is
\* returned, at midnight UTC, only when no earlier rule matched.
C21_FirstMatchingRule ==
  pc = "parsed" =>
    /\ RulesIn(LowerSeq(user_message)) = {} <=> parsed_date.isNone
    /\ RulesIn(LowerSeq(user_message)) # {} =>
         parsed_date.rule = RuleOrder[SetMin(RulesIn(LowerSeq(user_message)))]
    /\ parsed_date.rule = "today" => DateString(parsed_date) = Isoformat[1]
    /\ parsed_date.rule = "tomorrow" => DateString(parsed_date) = Isoformat[2]
    /\ parsed_date.rule = "next_week" => DateString(parsed_date) = Isoformat[8]
    /\ parsed_date.rule = "iso" =>
         /\ parsed_date.literal \in {user_message[i] : i \in 1..Len(user_message)}
         /\ DateString(parsed_date) = parsed_date.literal \o "T00:00:00Z"

\* 'monday tomorrow' is tomorrow, and a literal date after an Urdu weekday
\* is that weekday
C21_Witness ==
  /\ pc = "parsed"
  /\ \/ /\ user_message = <<"monday", "tomorrow">>
        /\ parsed_date = DateIn("tomorrow", 1)
     \/ /\ user_message = <<"u062C_u0645_u0639_u06C1", "2026-01-20">>
        /\ parsed_date.rule = "urdu_weekday"

\* the characters of the text in U+0600..U+06FF, and those that are no whitespace
UrduChars == Cardinality({i \in 1..Len(input_text) : input_text[i] = "urdu"})

NonSpaceChars == Cardinality({i \in 1..Len(input_text) : input_text[i] # "space"})

C23_CompletionFailureRaises ==
  [][/\ (pc = "tools_done" /\ pc' \notin {"tools_done", "ai_done"}) =>
          /\ pc' = "raised"
          /\ ~response'.present
          /\ messages' = messages
     /\ pc = "raised" =>
          \/ pc' = "raised" /\ ~response'.present /\ messages' = messages
          \/ pc' = "saved_user"]_vars

\* the completion call raised after a tool had been run
C23_Witness ==
  /\ pc = "raised"
  /\ Len(tool_calls) = 1
  /\ ~response.present
  /\ messages[Len(messages)].role = "user"

\* the completion-service input has a tool-result system entry
HasToolResultEntry ==
  \E i \in DOMAIN ai_messages :
    ai_messages[i].role = "system" /\ ai_messages[i].kind = "tool_results"

\* C24: in a turn with no detected intent whose prior state has no
\* adding_task intent no CRUD operation is called, the completion service
\* gets no tool-result entry, and the state the next turn will read is
\* empty, so that the mapping of an earlier list turn is gone.
C24_NoIntentTurnGoesIdle ==
  (PostTools /\ intent = "none" /\ StateIntent(current_state) # "adding_task") =>
    /\ crud = <<>>
    /\ tool_calls = <<>>
    /\ conversation_state = NoState
    /\ PostCompletion => ~HasToolResultEntry
    /\ pc \in {"done", "raised"} =>
         /\ ~StateTruthy(LastAssistantState(messages))
         /\ ~LastAssistantState(messages).has_mapping

\* the calls whose reply was saved before call r read the state
WritersBefore(r) ==
  {q \in DOMAIN requests :
     requests[q].wrote > 0 /\ requests[q].wrote <= requests[r].read_len}

\* the one of them that wrote last
LatestWriter(r) ==
  CHOOSE q \in WritersBefore(r) :
    \A o \in WritersBefore(r) : requests[o].wrote <= requests[q].wrote

HasRead(r) == requests[r].pc \in {"tools_done", "ai_done", "done", "raised"}

\* C25: a call reads the state that was written last before its read; when
\* the calls of a conversation are processed one at a time (no other call
\* is under way at the read) every earlier call has ended and the state
\* read is the one the last of them wrote.  Nothing keeps two calls from
\* reading the same state before either writes (C25_Witness).
C25_ReadSeesLastWrite ==
  \A r \in DOMAIN requests :
    HasRead(r) =>
      /\ requests[r].current_state =
           IF WritersBefore(r) = {} THEN LastAssistantState(AwaitingConversation)
           ELSE JsonState(requests[LatestWriter(r)].conversation_state)
      /\ requests[r].alone =>
           \A q \in 1..(r - 1) :
             /\ requests[q].pc \in {"done", "raised"}
             /\ requests[q].pc = "done" => q \in WritersBefore(r)

\* two calls read the same adding_task state, both created a task from it,
\* and the state one of them wrote lies under the state the other wrote
C25_Witness ==
  \E r, q \in DOMAIN requests :
    /\ r # q
    /\ requests[r].pc = "done" /\ requests[q].pc = "done"
    /\ StateIntent(requests[r].current_state) = "adding_task"
    /\ WritersBefore(r) = WritersBefore(q)
    /\ requests[q].read_len < requests[r].wrote
    /\ requests[r].read_len < requests[q].wrote
    /\ \A c \in {r, q} :
         /\ Len(requests[c].crud) = 1
         /\ requests[c].crud[1].op = "add_task"
         /\ requests[c].crud[1].success
    /\ requests[r].wrote < requests[q].wrote
    /\ Cardinality(tasks) = 2

\* the turn is handled by the add branch
AddTurn == intent = "adding_task" \/ StateIntent(current_state) = "adding_task"

\* C26: no state blob of the conversation has a title; a state with intent
\* adding_task is left for the next turn only by a turn that called no tool
\* and has no title yet, and the turn whose extraction gives a title calls
\* create-task with it.
C26_NoPersistedTitle ==
  /\ \A i \in DOMAIN messages : messages[i].state.title = NoTitle
  /\ PostTools =>
       /\ conversation_state.title = NoTitle
       /\ conversation_state.intent = "adding_task" =>
            /\ crud = <<>>
            /\ ExtractTaskInfo(user_message, current_state).title = NoTitle
       /\ (AddTurn /\ ExtractTaskInfo(user_message, current_state).title # NoTitle) =>
            /\ Len(crud) = 1
            /\ crud[1].op = "add_task"
            /\ crud[1].title = ExtractTaskInfo(user_message, current_state).title

\* a title-less adding_task state was read, the message gave the title, the
\* task was created and the reply saved without a state
C26_Witness ==
  /\ pc = "done"
  /\ StateIntent(current_state) = "adding_task"
  /\ current_state.title = NoTitle
  /\ Len(crud) = 1
  /\ crud[1].op = "add_task"
  /\ crud[1].title # NoTitle
  /\ \E i \in DOMAIN messages : messages[i].state.intent = "adding_task"
  /\ ~StateTruthy(PersistedState)

\* C27: a turn calls at most one CRUD operation and records at most one
\* tool-call entry; an add-intent turn without a title records none.
C27_AtMostOneCrudPerTurn ==
  /\ Len(crud) <= 1
  /\ Len(tool_calls) <= 1
  /\ Cardinality({i \in DOMAIN trace : trace[i] = "crud"}) <= 1
  /\ PostTools => Len(crud) <= Len(tool_calls)
  /\ (/\ PostTools /\ intent = "adding_task"
      /\ ExtractTaskInfo(user_message, current_state).title = NoTitle) =>
       /\ crud = <<>>
       /\ tool_calls = <<>>

\* an add-intent turn without a title that recorded nothing
C27_Witness ==
  /\ pc = "ai_done"
  /\ intent = "adding_task"
  /\ ExtractTaskInfo(user_message, current_state).title = NoTitle
  /\ tool_calls = <<>>
  /\ ~HasToolResultEntry

\* C28: when create-task was called and failed, the state left for the next
\* turn is empty too: the slots are dropped and the next turn is not taken
\* for a continuation of the add dialogue.
C28_FailedCreateClearsState ==
  (/\ pc \in {"done", "raised"}
   /\ Len(crud) = 1 /\ crud[1].op = "add_task" /\ ~crud[1].success) =>
    /\ conversation_state = NoState
    /\ ~StateTruthy(LastAssistantState(messages))
    /\ StateIntent(LastAssistantState(messages)) # "adding_task"

\* C30: a due_date the slot extractor has put into the slots is accepted by
\* the due-date validation of create-task: no call made with such a date
\* comes back with the invalid-due-date error.
C30_ExtractedDueDateAccepted ==
  (/\ PostTools
   /\ Len(crud) = 1 /\ crud[1].op = "add_task"
   /\ ExtractTaskInfo(user_message, current_state).due_date # "absent") =>
    /\ ParsesAsIso(ExtractTaskInfo(user_message, current_state).due_date)
    /\ tool_calls[1].result.error # InvalidDueDate

\* the calls before call r whose list call returned tasks
ListsBefore(r) ==
  {q \in 1..(r - 1) :
     /\ Len(requests[q].crud) = 1
     /\ requests[q].crud[1].op = "list_tasks"
     /\ requests[q].crud[1].success
     /\ Len(requests[q].tool_calls[1].result.tasks) > 0}

\* the last of them
LastList(r) == CHOOSE q \in ListsBefore(r) : \A o \in ListsBefore(r) : o <= q

\* C29: a reference resolved by position k gives the id of the k-th task of
\* the most recent list result of the conversation, and only complete and
\* delete turns lie between that list turn and the resolving turn; so a
\* repeated 'delete task k' is aimed at the same id.
C29_PositionFromLatestList ==
  \A r \in DOMAIN requests :
    (HasRead(r) /\ requests[r].resolved.by = "position") =>
      /\ ListsBefore(r) # {}
      /\ IntToStr(requests[r].resolved.task_id.v) =
           requests[LastList(r)].tool_calls[1].result.tasks[requests[r].resolved.number.v].id
      /\ \A q \in (LastList(r) + 1)..(r - 1) :
           requests[q].intent \in {"completing_task", "deleting_task"}
      /\ \A q \in 1..(r - 1) :
           (/\ requests[q].resolved.by = "position"
            /\ requests[q].resolved.number = requests[r].resolved.number
            /\ LastList(q) = LastList(r)) =>
             requests[q].resolved.task_id = requests[r].resolved.task_id

====
